---- MODULE Spec2Model ----
(***************************************************************************)
(* Model of the mknext scaffolding pipeline (src/commands/mk-next/         *)
(* mk-next.ts): the process runner run()/runInherit(), the extraction of   *)
(* the database URL from create-db's stdout, and the orchestrator          *)
(* mkNextApp with the top-level handler of mkNextCommand; and of           *)
(* src/utils.ts: renderTemplates with the filesystem under projectDir, and *)
(* isDevEnvironment.                                                       *)
(*                                                                         *)
(* Texts are sequences of one-character strings, so that splitting and     *)
(* prefix tests are computed and not assumed.                              *)
(***************************************************************************)
EXTENDS Integers, Sequences, FiniteSets, TLC

VARIABLES
  child,      \* the child process of the call being awaited (closure of run / runInherit)
  pc,         \* position of mkNextApp: "entry", a step name, "Done" or "Failed"
  log,        \* steps invoked so far, in order, with their status
  platform,   \* process.platform, "unread" until mkNextApp reads it
  appName,    \* the <app-name> argument
  devEnv,     \* value returned by isDevEnvironment(): "unread", "true", "false"
  dbUrlMatch, \* const dbUrlMatch of mkNextApp
  renderArgs, \* the variables map handed to renderTemplates
  fsLog,      \* filesystem writes made by mkNextApp itself
  warned,     \* steps whose failure was only logged with console.warn
  reported,   \* what mkNextCommand printed with console.error
  exitCalls,  \* arguments of the calls of process.exit
  exIn,       \* extraction unit: the stdout text
  exOut,      \* extraction unit: the extracted value
  shOut,      \* extraction unit: DB_URL of mknext.sh for the same text
  rend,       \* renderTemplates: its options, the template tree and the walk
  dest,       \* renderTemplates: the filesystem at and under projectDir
  devWalk,    \* isDevEnvironment: the environment, the directories and the walk
  cli         \* the mknext command line, from its words to the tool that is run

pipeVars == <<pc, log, platform, appName, devEnv, dbUrlMatch, renderArgs,
              fsLog, warned, reported, exitCalls>>
exVars == <<exIn, exOut, shOut>>
rdVars == <<rend, dest>>
devVars == <<devWalk>>
cliVars == <<cli>>
vars == <<child, pc, log, platform, appName, devEnv, dbUrlMatch, renderArgs,
          fsLog, warned, reported, exitCalls, exIn, exOut, shOut, rend, dest, devWalk,
          cli>>

----------------------------------------------------------------------------
(* Bounds *)

MaxData == 2      \* 'data' events delivered to one child
MaxPieces == 4    \* fragments concatenated into one stdout text (extraction unit)

----------------------------------------------------------------------------
(* Texts *)

Prefix == <<"p", "o", "s", "t", "g", "r", "e", "s", "q", "l", ":", "/", "/">>

WhiteSpace == {" ", "\n", "\t"}

StartsWith(t, pre) == Len(t) >= Len(pre) /\ SubSeq(t, 1, Len(pre)) = pre

RECURSIVE SplitFrom(_, _, _, _)
SplitFrom(s, i, cur, acc) ==
  IF i > Len(s) THEN Append(acc, cur)
  ELSE IF s[i] \in WhiteSpace
       THEN IF i > 1 /\ s[i - 1] \in WhiteSpace
            THEN SplitFrom(s, i + 1, cur, acc)
            ELSE SplitFrom(s, i + 1, <<>>, Append(acc, cur))
       ELSE SplitFrom(s, i + 1, Append(cur, s[i]), acc)

\* String.prototype.split(/\s+/): every maximal run of whitespace is one
\* separator; a leading or trailing separator yields an empty token.
SplitWs(s) == SplitFrom(s, 1, <<>>, <<>>)

\* Mutant of FindPrefixed: the last matching token instead of the first.
FindPrefixedLast(toks, pre) ==
  LET hits == {i \in DOMAIN toks : StartsWith(toks[i], pre)}
  IN  IF hits = {} THEN <<>>
      ELSE toks[CHOOSE i \in hits : \A j \in hits : j <= i]

\* toks.find((t) => t.startsWith(pre)) || ''
FindPrefixed(toks, pre) ==
  LET hits == {i \in DOMAIN toks : StartsWith(toks[i], pre)}
  IN  IF hits = {} THEN <<>>
      ELSE toks[CHOOSE i \in hits : \A j \in hits : i <= j]

ExtractDbUrl(stdout) == FindPrefixed(SplitWs(stdout), Prefix)

\* [^[:space:]]*: the longest run of characters that are not white space,
\* from position i on.
RECURSIVE NonSpaceRun(_, _)
NonSpaceRun(s, i) ==
  IF i > Len(s) \/ s[i] \in WhiteSpace THEN <<>>
  ELSE <<s[i]>> \o NonSpaceRun(s, i + 1)

\* The positions at which pre occurs in s.
Occurrences(s, pre) ==
  { i \in 1..(Len(s) - Len(pre) + 1) : SubSeq(s, i, i + Len(pre) - 1) = pre }

\* grep -o 'postgresql://[^[:space:]]*' | head -n1 || true: the leftmost
\* occurrence of the prefix with the characters that follow it up to the next
\* white space; the empty string when there is none.
GrepFirst(s, pre) ==
  LET hits == Occurrences(s, pre)
  IN  IF hits = {} THEN <<>>
      ELSE LET i == CHOOSE k \in hits : \A j \in hits : k <= j
           IN  pre \o NonSpaceRun(s, i + Len(pre))

ScriptDbUrl(stdout) == GrepFirst(stdout, Prefix)

RECURSIVE Flatten(_)
Flatten(ss) == IF ss = <<>> THEN <<>> ELSE Head(ss) \o Flatten(Tail(ss))

\* Fragments of which the modelled stdout texts are made: the scheme prefix,
\* a near miss of it, an ordinary character and the whitespace characters.
Frags == {Prefix, SubSeq(Prefix, 1, Len(Prefix) - 1), <<"u">>, <<" ">>, <<"\n">>, <<"\t">>}

RECURSIVE TextsOf(_)
TextsOf(n) ==
  IF n = 0 THEN {<<>>}
  ELSE LET shorter == TextsOf(n - 1)
       IN  shorter \cup {t \o f : t \in shorter, f \in Frags}

----------------------------------------------------------------------------
(* Process runner: run() and runInherit() *)

NullCode == -1                 \* code === null: the child was ended by a signal
CloseCodes == {0, 3, NullCode}
SysErrors == {"ENOENT", "EACCES"}

NoChild == [kind |-> "none"]
NoValue == [type |-> "none"]
NoInput == [given |-> FALSE, data |-> <<>>]
PendingPromise == [state |-> "pending", value |-> NoValue, settled |-> 0]

\* Mutant of Settle: a later resolve / reject replaces the outcome.
SettleAgain(p, st, v) == [state |-> st, value |-> v, settled |-> p.settled + 1]

\* resolve(v) / reject(v) of the promise created by run / runInherit: only
\* the first call has an effect.
Settle(p, st, v) ==
  IF p.state = "pending"
  THEN [state |-> st, value |-> v, settled |-> p.settled + 1]
  ELSE p

\* Mutant of StdinOps: stdin is ended only when a payload was written.
StdinOpsNoEnd(opts) ==
  IF opts.input.given /\ opts.input.data # <<>>
  THEN <<[op |-> "write", data |-> opts.input.data], [op |-> "end", data |-> <<>>]>>
  ELSE <<>>

\* if (opts.input) { write; end } else { end }
StdinOps(opts) ==
  IF opts.input.given /\ opts.input.data # <<>>
  THEN <<[op |-> "write", data |-> opts.input.data], [op |-> "end", data |-> <<>>]>>
  ELSE <<[op |-> "end", data |-> <<>>]>>

SpawnRun(cmdline, opts) ==
  [kind |-> "run", cmdline |-> cmdline, allowFail |-> opts.allowFail,
   input |-> opts.input, stdout |-> <<>>, stderr |-> <<>>, stdin |-> StdinOps(opts),
   p |-> PendingPromise, hist |-> <<>>]

SpawnInherit(cmdline) ==
  [kind |-> "inherit", cmdline |-> cmdline, allowFail |-> "unset",
   input |-> NoInput, stdout |-> <<>>, stderr |-> <<>>, stdin |-> <<>>,
   p |-> PendingPromise, hist |-> <<>>]

\* Mutant of RunOnStdout: the chunk is put in front of the text.
RunOnStdoutPrepend(c, d) == [c EXCEPT !.stdout = d \o @]

RunOnStdout(c, d) == [c EXCEPT !.stdout = @ \o d]

RunOnStderr(c, d) == [c EXCEPT !.stderr = @ \o d]

\* Mutant of RunOnError: with allowFail a spawn failure resolves.
RunOnErrorAllowFail(c, err) ==
  IF c.allowFail = "true"
  THEN [c EXCEPT !.p = Settle(@, "resolved",
          [type |-> "result", code |-> NullCode, stdout |-> c.stdout, stderr |-> c.stderr])]
  ELSE [c EXCEPT !.p = Settle(@, "rejected", [type |-> "SpawnError", err |-> err])]

RunOnError(c, err) ==
  [c EXCEPT !.p = Settle(@, "rejected", [type |-> "SpawnError", err |-> err])]

CommandFailed(c, code, verb) ==
  [type |-> "CommandFailed", cmdline |-> c.cmdline, verb |-> verb,
   code |-> code, stderr |-> c.stderr]

\* Mutant of RunOnClose: allowFail is not consulted.
RunOnCloseStrict(c, code) ==
  IF code # 0
  THEN [c EXCEPT !.p = Settle(@, "rejected", CommandFailed(c, code, "exited with code"))]
  ELSE [c EXCEPT !.p = Settle(@, "resolved",
          [type |-> "result", code |-> code, stdout |-> c.stdout, stderr |-> c.stderr])]

\* Mutant of RunOnClose: a non-zero exit always resolves.
RunOnCloseLax(c, code) ==
  [c EXCEPT !.p = Settle(@, "resolved",
     [type |-> "result", code |-> code, stdout |-> c.stdout, stderr |-> c.stderr])]

\* Mutant of RunOnClose: a close with code null settles nothing.
RunOnCloseSkipNull(c, code) ==
  IF code = NullCode THEN c
  ELSE IF code # 0 /\ c.allowFail # "true"
  THEN [c EXCEPT !.p = Settle(@, "rejected", CommandFailed(c, code, "exited with code"))]
  ELSE [c EXCEPT !.p = Settle(@, "resolved",
          [type |-> "result", code |-> code, stdout |-> c.stdout, stderr |-> c.stderr])]

RunOnClose(c, code) ==
  IF code # 0 /\ c.allowFail # "true"
  THEN [c EXCEPT !.p = Settle(@, "rejected", CommandFailed(c, code, "exited with code"))]
  ELSE [c EXCEPT !.p = Settle(@, "resolved",
          [type |-> "result", code |-> code, stdout |-> c.stdout, stderr |-> c.stderr])]

\* Mutant of InheritOnError: the rejection carries the command line.
InheritOnErrorNamed(c, err) ==
  [c EXCEPT !.p = Settle(@, "rejected", CommandFailed(c, NullCode, "failed with code"))]

InheritOnError(c, err) ==
  [c EXCEPT !.p = Settle(@, "rejected", [type |-> "SpawnError", err |-> err])]

\* Mutant of InheritOnClose: the exit code is not looked at.
InheritOnCloseLax(c, code) ==
  [c EXCEPT !.p = Settle(@, "resolved",
     [type |-> "result", code |-> code, stdout |-> <<>>, stderr |-> <<>>])]

InheritOnClose(c, code) ==
  IF code # 0
  THEN [c EXCEPT !.p = Settle(@, "rejected", CommandFailed(c, code, "failed with code"))]
  ELSE [c EXCEPT !.p = Settle(@, "resolved",
          [type |-> "result", code |-> code, stdout |-> <<>>, stderr |-> <<>>])]

\* The error object of an 'error' event, as the runtime makes it for a failed
\* spawn: the errno name, the executable and the arguments.
SysError(c, e) == [code |-> e, path |-> Head(c.cmdline), spawnargs |-> Tail(c.cmdline)]

\* Ghost: the events the child has emitted so far, in order.
Ev(ev, d, code) == [ev |-> ev, d |-> d, code |-> code]
Observe(c, e) == [c EXCEPT !.hist = Append(@, e)]
Seen(c, ev) == \E i \in DOMAIN c.hist : c.hist[i].ev = ev
DataCount(c) == Cardinality({i \in DOMAIN c.hist : c.hist[i].ev \in {"stdout", "stderr"}})

----------------------------------------------------------------------------
(* mkNextApp: the steps, their command lines and their options *)

RunSteps == {"npmVersion", "createDb", "betterAuthGenerate", "gitAdd", "gitCommit", "editor"}
InheritSteps == {"createNextApp", "shadcnInit", "shadcnAdd", "npmInstallDev", "npmInstall",
                 "prismaInit", "prismaGenerate", "dbPush"}
FsSteps == {"appendGitignore", "writeEnv"}
Platforms == {"darwin", "win32", "linux"}
AppNames == {"", "my-app"}

CmdLine(step, app, plat) ==
  CASE step = "npmVersion" -> <<"npm", "--version">>
    [] step = "createNextApp" -> <<"npx", "create-next-app@latest", app, "--yes", "--use-npm">>
    [] step = "shadcnInit" -> <<"npx", "--yes", "shadcn@latest", "init", "-y", "--template",
                                "next", "--base-color", "neutral">>
    [] step = "shadcnAdd" -> <<"npx", "--yes", "shadcn@latest", "add", "--all", "-y">>
    [] step = "npmInstallDev" -> <<"npm", "install", "-D", "prisma">>
    [] step = "npmInstall" -> <<"npm", "install", "@prisma/client", "better-auth">>
    [] step = "prismaInit" -> <<"npx", "prisma", "init", "--datasource-provider", "postgresql">>
    [] step = "createDb" -> <<"npx", "--yes", "create-db@latest">>
    [] step = "prismaGenerate" -> <<"npx", "prisma", "generate">>
    [] step = "betterAuthGenerate" -> <<"npx", "@better-auth/cli@latest", "generate">>
    [] step = "dbPush" -> <<"npx", "env-cmd", "-f", ".env.local", "prisma", "db", "push">>
    [] step = "gitAdd" -> <<"git", "add", ".">>
    [] step = "gitCommit" -> <<"git", "commit", "-m", "Initial commit from mknext script">>
    [] step = "editor" ->
         IF plat = "darwin" THEN <<"open", "-a", "Visual Studio Code", ".">>
         ELSE IF plat = "win32" THEN <<"cmd", "/c", "start", "code", ".">>
         ELSE <<"code", ".">>

\* Mutant of Opts: every call is made with allowFail.
OptsLax(step) ==
  [allowFail |-> "true",
   input |-> IF step = "betterAuthGenerate"
             THEN [given |-> TRUE, data |-> <<"y", "\n">>] ELSE NoInput]

Opts(step) ==
  CASE step = "npmVersion" -> [allowFail |-> "false", input |-> NoInput]
    [] step = "createDb" -> [allowFail |-> "true", input |-> NoInput]
    [] step = "betterAuthGenerate" ->
         [allowFail |-> "true", input |-> [given |-> TRUE, data |-> <<"y", "\n">>]]
    [] step = "gitAdd" -> [allowFail |-> "unset", input |-> NoInput]
    [] step = "gitCommit" -> [allowFail |-> "true", input |-> NoInput]
    [] step = "editor" -> [allowFail |-> "true", input |-> NoInput]

ErrorOf(msg) == [type |-> "Error", msg |-> msg]
UsageError == ErrorOf("Error: provide a project directory name. Usage: mknext <app-name>")
NpmNotFound == ErrorOf("npm not found on PATH")
ExtractionFailed == ErrorOf("Failed to obtain a database URL from create-db.")
RenderError == ErrorOf("Failed rendering template")
FsError(step) == [type |-> "FsError", step |-> step]

Thrown(err) == [to |-> "Failed", err |-> err, warn |-> FALSE]
Goto(s) == [to |-> s, err |-> NoValue, warn |-> FALSE]
Warned(s) == [to |-> s, err |-> NoValue, warn |-> TRUE]

\* Mutant of After: `shadcn add` is left out.
AfterSkipping(step) ==
  CASE step = "npmVersion" -> "createNextApp"
    [] step = "createNextApp" -> "appendGitignore"
    [] step = "appendGitignore" -> "shadcnInit"
    [] step = "shadcnInit" -> "npmInstallDev"
    [] step = "shadcnAdd" -> "npmInstallDev"
    [] step = "npmInstallDev" -> "npmInstall"
    [] step = "npmInstall" -> "prismaInit"
    [] step = "prismaInit" -> "writeEnv"
    [] step = "writeEnv" -> "createDb"
    [] step = "createDb" -> "renderTemplates"
    [] step = "renderTemplates" -> "prismaGenerate"
    [] step = "prismaGenerate" -> "betterAuthGenerate"
    [] step = "betterAuthGenerate" -> "dbPush"
    [] step = "dbPush" -> "gitAdd"
    [] step = "gitAdd" -> "gitCommit"
    [] step = "gitCommit" -> "editor"
    [] step = "editor" -> "Done"

\* The statement that follows `step` in the text of mkNextApp.
After(step) ==
  CASE step = "npmVersion" -> "createNextApp"
    [] step = "createNextApp" -> "appendGitignore"
    [] step = "appendGitignore" -> "shadcnInit"
    [] step = "shadcnInit" -> "shadcnAdd"
    [] step = "shadcnAdd" -> "npmInstallDev"
    [] step = "npmInstallDev" -> "npmInstall"
    [] step = "npmInstall" -> "prismaInit"
    [] step = "prismaInit" -> "writeEnv"
    [] step = "writeEnv" -> "createDb"
    [] step = "createDb" -> "renderTemplates"
    [] step = "renderTemplates" -> "prismaGenerate"
    [] step = "prismaGenerate" -> "betterAuthGenerate"
    [] step = "betterAuthGenerate" -> "dbPush"
    [] step = "dbPush" -> "gitAdd"
    [] step = "gitAdd" -> "gitCommit"
    [] step = "gitCommit" -> "editor"
    [] step = "editor" -> "Done"

\* Mutant of Awaited: the rejection is dropped and the next statement runs.
AwaitedUnchecked(p, next) == Goto(next)

\* `await call` outside any try block: a rejection is thrown to the caller of
\* mkNextApp, otherwise the next statement runs.
Awaited(p, next) == IF p.state = "rejected" THEN Thrown(p.value) ELSE Goto(next)

\* Mutant of AwaitedInTry: the rejection is dropped inside the try block.
AwaitedInTryUnchecked(p, next, handler) == Goto(next)

\* Mutant of AwaitedInTry: the rejection is thrown on.
AwaitedInTryRethrown(p, next, handler) ==
  IF p.state = "rejected" THEN Thrown(p.value) ELSE Goto(next)

\* `await call` inside try { } catch { console.warn }: a rejection goes to the
\* statement after the try block.
AwaitedInTry(p, next, handler) ==
  IF p.state = "rejected" THEN Warned(handler) ELSE Goto(next)

\* Mutant of Missing: the extracted value is not tested.
MissingNever(url) == FALSE

\* if (!dbUrlMatch): the empty string is the only falsy value of dbUrlMatch.
Missing(url) == url = <<>>

\* Mutant of SkipGit: the git steps are run in a development checkout too.
SkipGitNever(dev) == FALSE

\* if (isDevEnvironment()): the git steps are left out.
SkipGit(dev) == dev

\* Where mkNextApp goes once the call of `step` has settled with promise p.
\* dev is the value of isDevEnvironment(), url the value of dbUrlMatch.
Continue(step, p, dev, url) ==
  CASE step = "npmVersion" ->
         IF p.state = "rejected" THEN Thrown(NpmNotFound) ELSE Goto(After(step))
    [] step = "createDb" ->
         LET k == Awaited(p, After(step))
         IN  IF k.to # "Failed" /\ Missing(url) THEN Thrown(ExtractionFailed) ELSE k
    [] step = "dbPush" ->
         LET k == Awaited(p, After(step))
         IN  IF k.to # "Failed" /\ SkipGit(dev) THEN Goto("editor") ELSE k
    [] step = "gitAdd" -> AwaitedInTry(p, After(step), "editor")
    [] step = "gitCommit" -> AwaitedInTry(p, After(step), "editor")
    [] step = "editor" -> AwaitedInTry(p, After(step), "Done")
    [] OTHER -> Awaited(p, After(step))

\* Where mkNextApp goes after a synchronous step (a filesystem write, the render).
AfterSync(step, ok) ==
  IF ok THEN Goto(After(step))
  ELSE IF step = "renderTemplates" THEN Thrown(RenderError) ELSE Thrown(FsError(step))

FsWriteOf(step) ==
  CASE step = "appendGitignore" -> [op |-> "append", file |-> ".gitignore", data |-> "\n.env.*.local"]
    [] step = "writeEnv" -> [op |-> "write", file |-> ".env", data |-> ""]

LogEntry(step, status, code) == [step |-> step, status |-> status, code |-> code]

CodeOf(v) == IF v.type \in {"result", "CommandFailed"} THEN v.code ELSE NullCode

----------------------------------------------------------------------------
(* Chunks a child may write *)

DbChunks == {Prefix, <<" ">>}
OutChunks(c) == IF c.cmdline = CmdLine("createDb", "", "linux") THEN DbChunks ELSE {<<"u">>}
ErrChunks == {<<"e">>}

----------------------------------------------------------------------------
(* Events of the child being awaited *)

OnStdoutData ==
  /\ child.kind = "run"
  /\ DataCount(child) < MaxData
  /\ \E d \in OutChunks(child) :
       child' = Observe(RunOnStdout(child, d), Ev("stdout", d, 0))
  /\ UNCHANGED <<pipeVars, exVars, rdVars, devVars, cliVars>>

OnStderrData ==
  /\ child.kind = "run"
  /\ DataCount(child) < MaxData
  /\ \E d \in ErrChunks :
       child' = Observe(RunOnStderr(child, d), Ev("stderr", d, 0))
  /\ UNCHANGED <<pipeVars, exVars, rdVars, devVars, cliVars>>

OnError ==
  /\ child.kind # "none"
  /\ ~Seen(child, "error")
  /\ \E e \in SysErrors :
       child' = Observe(IF child.kind = "run" THEN RunOnError(child, SysError(child, e))
                        ELSE InheritOnError(child, SysError(child, e)),
                        Ev("error", <<e>>, 0))
  /\ UNCHANGED <<pipeVars, exVars, rdVars, devVars, cliVars>>

OnClose ==
  /\ child.kind # "none"
  /\ ~Seen(child, "close")
  /\ \E code \in CloseCodes :
       child' = Observe(IF child.kind = "run" THEN RunOnClose(child, code)
                        ELSE InheritOnClose(child, code),
                        Ev("close", <<>>, code))
  /\ UNCHANGED <<pipeVars, exVars, rdVars, devVars, cliVars>>

----------------------------------------------------------------------------
(* mkNextApp and the action of mkNextCommand *)

\* err.message || err, as console.error prints it: the words of the message.
\* The message of a spawn error is the runtime's: 'spawn <file> <code>'.
Printed(err) ==
  CASE err.type = "SpawnError" -> <<"spawn", err.err.path, err.err.code>>
    [] err.type = "CommandFailed" ->
         err.cmdline
           \o <<err.verb, IF err.code = NullCode THEN "null" ELSE ToString(err.code), "\n">>
           \o err.stderr
    [] err.type = "Error" -> <<err.msg>>
    [] err.type = "FsError" -> <<err.step>>
    [] OTHER -> <<>>

\* Mutant of Land: the failure is printed but the process is not ended.
LandNoExit(k) ==
  /\ pc' = k.to
  /\ reported' = IF k.to = "Failed" THEN k.err ELSE reported
  /\ UNCHANGED exitCalls

\* The top-level catch of mkNextCommand: console.error and process.exit(1).
Land(k) ==
  /\ pc' = k.to
  /\ IF k.to = "Failed"
     THEN reported' = k.err /\ exitCalls' = Append(exitCalls, 1)
     ELSE UNCHANGED <<reported, exitCalls>>

Enter ==
  /\ pc = "entry"
  /\ Land(IF appName = "" THEN Thrown(UsageError) ELSE Goto("npmVersion"))
  /\ UNCHANGED <<child, log, platform, appName, devEnv, dbUrlMatch, renderArgs,
                 fsLog, warned, exVars, rdVars, devVars, cliVars>>

\* process.platform is read when the editor command is chosen.
StartRun ==
  /\ pc \in RunSteps
  /\ child.kind = "none"
  /\ \E plat \in (IF pc = "editor" THEN Platforms ELSE {platform}) :
       /\ platform' = plat
       /\ child' = SpawnRun(CmdLine(pc, appName, plat), Opts(pc))
  /\ log' = Append(log, LogEntry(pc, "pending", NullCode))
  /\ UNCHANGED <<pc, appName, devEnv, dbUrlMatch, renderArgs, fsLog,
                 warned, reported, exitCalls, exVars, rdVars, devVars, cliVars>>

StartInherit ==
  /\ pc \in InheritSteps
  /\ child.kind = "none"
  /\ child' = SpawnInherit(CmdLine(pc, appName, platform))
  /\ log' = Append(log, LogEntry(pc, "pending", NullCode))
  /\ UNCHANGED <<pc, platform, appName, devEnv, dbUrlMatch, renderArgs, fsLog,
                 warned, reported, exitCalls, exVars, rdVars, devVars, cliVars>>

\* Mutant of AwaitOver: the call is not awaited.
AwaitOverAtOnce(p) == TRUE

\* `await`: mkNextApp is suspended until the promise of the call is settled.
AwaitOver(p) == p.state # "pending"

\* The continuation of an await: runs once the promise of the call is settled.
Resume ==
  /\ pc \in RunSteps \cup InheritSteps
  /\ child.kind # "none"
  /\ AwaitOver(child.p)
  /\ LET p == child.p
         url == IF pc = "createDb" /\ p.state = "resolved"
                THEN ExtractDbUrl(p.value.stdout) ELSE dbUrlMatch
     IN  \E dev \in (IF pc = "dbPush" /\ p.state = "resolved"
                     THEN {"true", "false"} ELSE {devEnv}) :
           LET k == Continue(pc, p, dev = "true", url)
           IN  /\ Land(k)
               /\ dbUrlMatch' = url
               /\ devEnv' = dev
               /\ warned' = IF k.warn THEN warned \cup {pc} ELSE warned
               /\ log' = [log EXCEPT ![Len(log)] =
                            LogEntry(pc, p.state, CodeOf(p.value))]
  /\ child' = NoChild
  /\ UNCHANGED <<platform, appName, renderArgs, fsLog, exVars, rdVars, devVars, cliVars>>

FsWrite ==
  /\ pc \in FsSteps
  /\ \E ok \in BOOLEAN :
       /\ Land(AfterSync(pc, ok))
       /\ log' = Append(log, LogEntry(pc, IF ok THEN "resolved" ELSE "rejected", 0))
       /\ fsLog' = IF ok THEN Append(fsLog, FsWriteOf(pc)) ELSE fsLog
  /\ UNCHANGED <<child, platform, appName, devEnv, dbUrlMatch, renderArgs, warned, exVars, rdVars, devVars, cliVars>>

\* Mutant of RenderVariables: the harvested value is not handed over.
RenderVariablesBlank(url) == <<[key |-> ".env.local", DATABASE_URL |-> <<>>]>>

\* variables: { '.env.local': { DATABASE_URL: dbUrlMatch } }
RenderVariables(url) == <<[key |-> ".env.local", DATABASE_URL |-> url]>>

Render ==
  /\ pc = "renderTemplates"
  /\ renderArgs' = RenderVariables(dbUrlMatch)
  /\ \E ok \in BOOLEAN :
       /\ Land(AfterSync(pc, ok))
       /\ log' = Append(log, LogEntry(pc, IF ok THEN "resolved" ELSE "rejected", 0))
  /\ UNCHANGED <<child, platform, appName, devEnv, dbUrlMatch, fsLog, warned, exVars, rdVars, devVars, cliVars>>

NoShOut == [done |-> FALSE, url |-> <<>>]
ExIdle == exIn = <<>> /\ exOut = <<>> /\ shOut = NoShOut

\* No call of renderTemplates and no call of isDevEnvironment is under way.
NoRender == [status |-> "none"]
NoDest == [dirs |-> {}, files |-> <<>>]
NoDev == [status |-> "none"]
RenderIdle == rend = NoRender /\ dest = NoDest
DevIdle == devWalk = NoDev

\* No command line is being handled.
NoCli == [status |-> "none"]
CliIdle == cli = NoCli

Init ==
  /\ child = NoChild
  /\ pc = "entry"
  /\ log = <<>>
  /\ platform = "unread"
  /\ appName \in AppNames
  /\ devEnv = "unread"
  /\ dbUrlMatch = <<>>
  /\ renderArgs = <<>>
  /\ fsLog = <<>>
  /\ warned = {}
  /\ reported = NoValue
  /\ exitCalls = <<>>
  /\ ExIdle
  /\ RenderIdle
  /\ DevIdle
  /\ CliIdle

Next ==
  \/ Enter
  \/ StartRun
  \/ StartInherit
  \/ OnStdoutData
  \/ OnStderrData
  \/ OnError
  \/ OnClose
  \/ Resume
  \/ FsWrite
  \/ Render

Spec == Init /\ [][Next]_vars

\* The steps mkNextApp takes by itself: its synchronous code and the
\* continuations of its awaits, which the event loop runs as soon as the awaited
\* promise is settled. The events of a child are the child's.
OwnStep ==
  \/ Enter
  \/ StartRun
  \/ StartInherit
  \/ Resume
  \/ FsWrite
  \/ Render

\* The pipeline with its scheduling: a step mkNextApp can take is taken. Nothing
\* is said of the children: one may never emit an event.
SpecLive == Init /\ [][Next]_vars /\ WF_vars(OwnStep)

----------------------------------------------------------------------------
(* One call of run() or runInherit() with any options, and the child's events *)

AllowFailValues == {"unset", "false", "true"}
Inputs == {NoInput, [given |-> TRUE, data |-> <<>>], [given |-> TRUE, data |-> <<"y", "\n">>]}
UnitCmdLines == {CmdLine("createDb", "", "linux"), CmdLine("gitAdd", "", "linux")}

PipeIdle ==
  /\ pc = "unit"
  /\ log = <<>>
  /\ platform = "linux"
  /\ appName = ""
  /\ devEnv = "unread"
  /\ dbUrlMatch = <<>>
  /\ renderArgs = <<>>
  /\ fsLog = <<>>
  /\ warned = {}
  /\ reported = NoValue
  /\ exitCalls = <<>>

RunInit ==
  /\ PipeIdle
  /\ ExIdle
  /\ RenderIdle
  /\ DevIdle
  /\ CliIdle
  /\ \E cl \in UnitCmdLines :
       \/ \E af \in AllowFailValues, inp \in Inputs :
            child = SpawnRun(cl, [allowFail |-> af, input |-> inp])
       \/ child = SpawnInherit(cl)

RunNext ==
  \/ OnStdoutData
  \/ OnStderrData
  \/ OnError
  \/ OnClose

SpecRun == RunInit /\ [][RunNext]_vars

----------------------------------------------------------------------------
(* The extraction alone, on every text of up to MaxPieces fragments *)

Extract ==
  /\ pc = "extract"
  /\ exOut' = ExtractDbUrl(exIn)
  /\ pc' = "extracted"
  /\ UNCHANGED <<child, log, platform, appName, devEnv, dbUrlMatch, renderArgs,
                 fsLog, warned, reported, exitCalls, exIn, shOut, rdVars, devVars,
                 cliVars>>

\* mknext.sh on the same stdout: DB_URL="$(npx --yes create-db@latest | grep -o
\* 'postgresql://[^[:space:]]*' | head -n1 || true)"
ScriptExtract ==
  /\ ~shOut.done
  /\ shOut' = [done |-> TRUE, url |-> ScriptDbUrl(exIn)]
  /\ UNCHANGED <<child, pipeVars, exIn, exOut, rdVars, devVars, cliVars>>

ExtractInit ==
  /\ child = NoChild
  /\ pc = "extract"
  /\ log = <<>>
  /\ platform = "linux"
  /\ appName = ""
  /\ devEnv = "unread"
  /\ dbUrlMatch = <<>>
  /\ renderArgs = <<>>
  /\ fsLog = <<>>
  /\ warned = {}
  /\ reported = NoValue
  /\ exitCalls = <<>>
  /\ exIn \in TextsOf(MaxPieces)
  /\ exOut = <<>>
  /\ shOut = NoShOut
  /\ RenderIdle
  /\ DevIdle
  /\ CliIdle

ExtractNext ==
  \/ Extract
  \/ ScriptExtract

SpecExtract == ExtractInit /\ [][ExtractNext]_vars

----------------------------------------------------------------------------
(* renderTemplates (src/utils.ts): paths, the template tree, the filesystem *)
(* under projectDir, and the rendering of one entry                        *)

MaxNodes == 3     \* entries of a template tree
MaxPasses == 2    \* calls of renderTemplates made on the same projectDir

Eta == <<".", "e", "t", "a">>
Sep == <<"/">>

EndsWith(s, suffix) ==
  /\ Len(s) >= Len(suffix)
  /\ SubSeq(s, Len(s) - Len(suffix) + 1, Len(s)) = suffix

\* path.relative(templatesDir, full): the names below templatesDir joined by '/'.
RECURSIVE JoinNames(_)
JoinNames(names) ==
  IF names = <<>> THEN <<>>
  ELSE IF Len(names) = 1 THEN names[1]
  ELSE names[1] \o Sep \o JoinNames(Tail(names))

\* The pieces of a path text between its '/' characters.
RECURSIVE SplitNames(_)
SplitNames(s) ==
  IF \A i \in 1..Len(s) : s[i] # "/" THEN <<s>>
  ELSE LET i == CHOOSE j \in 1..Len(s) :
                  s[j] = "/" /\ \A k \in 1..(j - 1) : s[k] # "/"
       IN  <<SubSeq(s, 1, i - 1)>> \o SplitNames(SubSeq(s, i + 1, Len(s)))

\* Names used in template trees: 'a.eta', 'a.eta.eta', 'eta' (no dot), '.eta',
\* the directory 'd', and 'l.eta', which is a symbolic link.
NameA == <<"a">>
NameD == <<"d">>
NameAEta == NameA \o Eta
NameAEtaEta == NameAEta \o Eta
NameNoDot == <<"e", "t", "a">>
NameLEta == <<"l">> \o Eta

Entry(path, kind) == [path |-> path, kind |-> kind]

\* Every entry a template tree may have; a path is the sequence of names
\* from templatesDir down to the entry.
AllEntries ==
  { Entry(<<NameAEta>>, "file"), Entry(<<NameAEtaEta>>, "file"),
    Entry(<<NameNoDot>>, "file"), Entry(<<Eta>>, "file"),
    Entry(<<NameLEta>>, "link"),
    Entry(<<NameD>>, "dir"), Entry(<<NameD, NameAEta>>, "file"),
    Entry(<<NameD, NameNoDot>>, "file") }

ParentOf(path) == SubSeq(path, 1, Len(path) - 1)

Trees(n) ==
  { t \in SUBSET AllEntries :
      /\ Cardinality(t) <= n
      /\ \A e \in t : Len(e.path) > 1 => Entry(ParentOf(e.path), "dir") \in t }

\* fs.readdirSync(dir, { withFileTypes: true }): the entries of one directory.
Children(tree, dir) == { e \in tree : Len(e.path) > 0 /\ ParentOf(e.path) = dir }

\* The orders in which readdirSync may list a set of entries.
Orders(S) ==
  { o \in [1..Cardinality(S) -> S] :
      \A i, j \in 1..Cardinality(S) : o[i] = o[j] => i = j }

\* entry.isFile() && entry.name.endsWith('.eta')
IsTemplateAnyFile(e) == e.kind = "file"

IsTemplate(e) == e.kind = "file" /\ EndsWith(e.path[Len(e.path)], Eta)

RelFromTemplates(e) == JoinNames(e.path)

\* relFromTemplates.replace(/\.eta$/, '')
OutRelKeepSuffix(e) == RelFromTemplates(e)

OutRelStripTwice(e) ==
  LET rel == RelFromTemplates(e)
  IN  IF EndsWith(rel, Eta \o Eta) THEN SubSeq(rel, 1, Len(rel) - 2 * Len(Eta))
      ELSE IF EndsWith(rel, Eta) THEN SubSeq(rel, 1, Len(rel) - Len(Eta))
      ELSE rel

OutRel(e) ==
  LET rel == RelFromTemplates(e)
  IN  IF EndsWith(rel, Eta) THEN SubSeq(rel, 1, Len(rel) - Len(Eta)) ELSE rel

\* projectDir, as the path from the filesystem root.
ProjectDir == <<<<"p">>>>

\* path.join(projectDir, outRel): empty pieces vanish, a trailing '/' stays.
OutPath(e) ==
  LET outRel == OutRel(e)
  IN  [names |-> ProjectDir \o SelectSeq(SplitNames(outRel), LAMBDA n : n # <<>>),
       slash |-> outRel # <<>> /\ outRel[Len(outRel)] = "/"]

Prefixes(path) == { SubSeq(path, 1, k) : k \in 0..Len(path) }

\* fs.mkdirSync(dir, { recursive: true }): fails when a file is in the way.
MkdirSync(d, dir) ==
  IF \E q \in Prefixes(dir) : q \in DOMAIN d.files
  THEN [ok |-> FALSE, dest |-> d]
  ELSE [ok |-> TRUE, dest |-> [d EXCEPT !.dirs = @ \cup Prefixes(dir)]]

\* fs.writeFileSync(outPath, rendered): replaces the content of the file; fails
\* on a directory and on a path that ends in '/'.
WriteFileSyncAppend(d, out, text) ==
  IF out.slash \/ out.names \in d.dirs \/ ParentOf(out.names) \notin d.dirs
  THEN [ok |-> FALSE, dest |-> d]
  ELSE [ok |-> TRUE,
        dest |-> [d EXCEPT !.files =
                    (out.names :> (IF out.names \in DOMAIN d.files
                                   THEN d.files[out.names] \o text ELSE text)) @@ @]]

WriteFileSync(d, out, text) ==
  IF out.slash \/ out.names \in d.dirs \/ ParentOf(out.names) \notin d.dirs
  THEN [ok |-> FALSE, dest |-> d]
  ELSE [ok |-> TRUE, dest |-> [d EXCEPT !.files = (out.names :> text) @@ @]]

\* The data of a call: every template prints the values of 'a' and of 'b'.
DataKeys == {"a", "b"}
NoData == <<>>
GlobalData == [k \in DataKeys |-> "global"]

\* The per-file entries a variables map may hold, each with a value of its own
\* for 'a', so that the entry applied shows in the rendered text.
AllVariables ==
  (NameA :> ("a" :> "for a")) @@
  (NameAEta :> ("a" :> "for a.eta")) @@
  (JoinNames(<<NameD, NameAEta>>) :> ("a" :> "for d/a.eta"))

Restrict(f, S) == [k \in S |-> f[k]]

VariablesMaps == { Restrict(AllVariables, S) : S \in SUBSET DOMAIN AllVariables }

\* The key of the variables map whose entry is taken for an entry, if any:
\* variables && (variables[outRel] || variables[relFromTemplates]).
KeyOfTemplateFirst(opts, e) ==
  IF ~opts.hasVariables THEN {}
  ELSE IF RelFromTemplates(e) \in DOMAIN opts.variables THEN {RelFromTemplates(e)}
  ELSE IF OutRel(e) \in DOMAIN opts.variables THEN {OutRel(e)}
  ELSE {}

KeyOf(opts, e) ==
  IF ~opts.hasVariables THEN {}
  ELSE IF OutRel(e) \in DOMAIN opts.variables THEN {OutRel(e)}
  ELSE IF RelFromTemplates(e) \in DOMAIN opts.variables THEN {RelFromTemplates(e)}
  ELSE {}

FileVars(opts, e) ==
  IF KeyOf(opts, e) = {} THEN NoData
  ELSE opts.variables[CHOOSE k \in KeyOf(opts, e) : TRUE]

\* { ...data, ...fileVars }
MergedData(opts, e) == FileVars(opts, e) @@ opts.data

\* eta.renderString(templateContent, mergedData): a template that does not
\* compile throws; the others print the values of 'a' and 'b'.
Valid == "valid"
Broken == "broken"
ValueOf(data, k) == IF k \in DOMAIN data THEN data[k] ELSE "undefined"

RenderString(content, data) ==
  IF content = Broken
  THEN [ok |-> FALSE, message |-> "bad template"]
  ELSE [ok |-> TRUE, text |-> <<ValueOf(data, "a"), ValueOf(data, "b")>>]

\* fs.readFileSync(full, 'utf8')
ContentOf(opts, e) == IF e.path = opts.broken THEN Broken ELSE Valid

RenderFailed(e, message) ==
  [name |-> "Error",
   message |-> <<"Failed rendering template", RelFromTemplates(e), message>>]
FsFailed(syscall, path) == [name |-> "SystemError", syscall |-> syscall, path |-> path]

\* The body of the loop of walk() for one template entry: what it leaves on the
\* filesystem, the error it throws if any, and the record of what it did.
Did(e, opts, result) ==
  [tpl |-> e.path, out |-> OutPath(e).names, key |-> KeyOf(opts, e),
   data |-> MergedData(opts, e), result |-> result]

RenderEntryWriteFirst(d, opts, e) ==
  LET r == RenderString(ContentOf(opts, e), MergedData(opts, e))
      out == OutPath(e)
      made == MkdirSync(d, ParentOf(out.names))
      wrote == WriteFileSync(made.dest, out, <<"pending">>)
  IN  IF ~made.ok
      THEN [dest |-> d, error |-> FsFailed("mkdir", ParentOf(out.names)),
            did |-> Did(e, opts, "mkdir failed")]
      ELSE IF ~wrote.ok
      THEN [dest |-> made.dest, error |-> FsFailed("open", out.names),
            did |-> Did(e, opts, "write failed")]
      ELSE IF ~r.ok
      THEN [dest |-> wrote.dest, error |-> RenderFailed(e, r.message),
            did |-> Did(e, opts, "render failed")]
      ELSE [dest |-> WriteFileSync(made.dest, out, r.text).dest, error |-> NoValue,
            did |-> Did(e, opts, "written")]

RenderEntry(d, opts, e) ==
  LET r == RenderString(ContentOf(opts, e), MergedData(opts, e))
      out == OutPath(e)
      made == MkdirSync(d, ParentOf(out.names))
      wrote == WriteFileSync(made.dest, out, r.text)
  IN  IF ~r.ok
      THEN [dest |-> d, error |-> RenderFailed(e, r.message),
            did |-> Did(e, opts, "render failed")]
      ELSE IF ~made.ok
      THEN [dest |-> d, error |-> FsFailed("mkdir", ParentOf(out.names)),
            did |-> Did(e, opts, "mkdir failed")]
      ELSE IF ~wrote.ok
      THEN [dest |-> made.dest, error |-> FsFailed("open", out.names),
            did |-> Did(e, opts, "write failed")]
      ELSE [dest |-> wrote.dest, error |-> NoValue, did |-> Did(e, opts, "written")]

----------------------------------------------------------------------------
(* renderTemplates: the call and the walk, one entry at a time *)

\* if (!fs.existsSync(templatesDir))
TemplatesDirMissingNever(opts) == FALSE

TemplatesDirMissing(opts) == ~opts.tplExists

\* What walk() does to the destination on reaching a directory entry: nothing,
\* it only descends.
OnDirectoryMirror(d, e) == MkdirSync(d, ProjectDir \o e.path).dest

OnDirectory(d, e) == d

\* Frames of walk() whose loop is over are left.
RECURSIVE Unwind(_)
Unwind(stack) ==
  IF stack = <<>> THEN <<>>
  ELSE IF Head(stack) = <<>> THEN Unwind(Tail(stack))
  ELSE stack

\* The pass is over: the promise of renderTemplates settles.
Settled(r, d, stack, error) ==
  IF error # NoValue
  THEN [r EXCEPT !.status = "rejected", !.error = error, !.stack = <<>>,
                 !.after = Append(@, [status |-> "rejected", dest |-> d])]
  ELSE IF stack = <<>>
  THEN [r EXCEPT !.status = "resolved", !.stack = <<>>,
                 !.after = Append(@, [status |-> "resolved", dest |-> d])]
  ELSE [r EXCEPT !.stack = stack]

RenderCall ==
  /\ rend.status \in {"ready", "resolved", "rejected"}
  /\ rend.pass < MaxPasses
  /\ LET r == [rend EXCEPT !.pass = @ + 1, !.before = dest, !.trace = <<>>,
                           !.error = NoValue, !.status = "walking"]
     IN  IF TemplatesDirMissing(rend.opts)
         THEN rend' = [Settled(r, dest, <<>>, NoValue) EXCEPT !.warned = TRUE]
         ELSE IF ~rend.opts.tplExists
         THEN rend' = Settled(r, dest, <<>>, FsFailed("scandir", <<>>))
         ELSE \E o \in Orders(Children(rend.tree, <<>>)) :
                rend' = Settled(r, dest, Unwind(<<o>>), NoValue)
  /\ UNCHANGED <<child, pipeVars, exVars, dest, devVars, cliVars>>

Current == Head(Head(rend.stack))

\* Mutant of Rest: the directories above the current one are forgotten.
RestInnermost == <<Tail(Head(rend.stack))>>

\* The entries still to visit: the rest of this directory, then the rest of
\* every directory above it.
Rest == <<Tail(Head(rend.stack))>> \o Tail(rend.stack)

WalkDirectory ==
  /\ rend.status = "walking"
  /\ Current.kind = "dir"
  /\ dest' = OnDirectory(dest, Current)
  /\ \E o \in Orders(Children(rend.tree, Current.path)) :
       rend' = Settled(rend, dest', Unwind(<<o>> \o Rest), NoValue)
  /\ UNCHANGED <<child, pipeVars, exVars, devVars, cliVars>>

WalkTemplate ==
  /\ rend.status = "walking"
  /\ Current.kind # "dir"
  /\ IsTemplate(Current)
  /\ LET done == RenderEntry(dest, rend.opts, Current)
     IN  /\ dest' = done.dest
         /\ rend' = Settled([rend EXCEPT !.trace = Append(@, done.did)],
                            done.dest, Unwind(Rest), done.error)
  /\ UNCHANGED <<child, pipeVars, exVars, devVars, cliVars>>

WalkOther ==
  /\ rend.status = "walking"
  /\ Current.kind # "dir"
  /\ ~IsTemplate(Current)
  /\ rend' = Settled(rend, dest, Unwind(Rest), NoValue)
  /\ UNCHANGED <<child, pipeVars, exVars, dest, devVars, cliVars>>

\* The template files of a tree: the files whose name ends in '.eta'.
TemplatesOf(tree) == { e \in tree : e.kind = "file" /\ EndsWith(e.path[Len(e.path)], Eta) }

\* The options of a call: data and variables may be left out; at most one
\* template of the tree does not compile.
OptionsFor(tree, exists) ==
  [tplExists : {exists},
   data : {NoData, GlobalData},
   hasVariables : BOOLEAN,
   variables : VariablesMaps,
   broken : {<<>>} \cup { e.path : e \in TemplatesOf(tree) }]

\* What may be at projectDir before the first call: nothing, an empty
\* directory, or a directory holding a file 'a' or a file 'd'.
Old == <<"old">>
Root == <<>>
DestInits ==
  { [dirs |-> {Root}, files |-> <<>>],
    [dirs |-> {Root, ProjectDir}, files |-> <<>>],
    [dirs |-> {Root, ProjectDir}, files |-> (ProjectDir \o <<NameA>>) :> Old],
    [dirs |-> {Root, ProjectDir}, files |-> (ProjectDir \o <<NameD>>) :> Old] }

RenderInit ==
  /\ child = NoChild
  /\ PipeIdle
  /\ ExIdle
  /\ DevIdle
  /\ CliIdle
  /\ dest \in DestInits
  /\ \E exists \in BOOLEAN :
       \E tree \in (IF exists THEN Trees(MaxNodes) ELSE {{}}) :
         \E opts \in OptionsFor(tree, exists) :
           /\ ~opts.hasVariables => opts.variables = <<>>
           /\ rend = [status |-> "ready", opts |-> opts, tree |-> tree,
                      stack |-> <<>>, trace |-> <<>>, error |-> NoValue,
                      warned |-> FALSE, pass |-> 0, before |-> dest,
                      after |-> <<>>]

RenderNext ==
  \/ RenderCall
  \/ WalkDirectory
  \/ WalkTemplate
  \/ WalkOther

SpecRender == RenderInit /\ [][RenderNext]_vars

----------------------------------------------------------------------------
(* isDevEnvironment (src/utils.ts): the override variable and the walk *)
(* upward from __dirname                                               *)

MaxAncestors == 6   \* directories above __dirname, up to the filesystem root
Levels == 6         \* the limit of the loop of isDevEnvironment

\* What a directory holds: a package.json, a .git entry, both or neither.
DirKinds == [pkg : BOOLEAN, git : BOOLEAN]

\* __dirname and the directories above it, the filesystem root last.
Chains(n) == UNION { [1..k -> DirKinds] : k \in 1..(n + 1) }

\* process.env.JR_SCRIPTS_FORCE_DEV
EnvValues == {"unset", "1", "0"}

\* if (process.env.JR_SCRIPTS_FORCE_DEV === '1') return true;
ForceDevNever(env) == FALSE

ForceDev(env) == env = "1"

\* fs.existsSync(pkgPath): the walk ends at the first directory with a
\* package.json.
AtPackageRootWithGit(d) == d.pkg /\ d.git

AtPackageRoot(d) == d.pkg

DevReturn(value) == [devWalk EXCEPT !.status = "returned", !.result = value]

IsDevEnvironmentCall ==
  /\ devWalk.status = "ready"
  /\ devWalk' = IF ForceDev(devWalk.env)
                THEN DevReturn(TRUE)
                ELSE [devWalk EXCEPT !.status = "loop", !.dir = 1, !.i = 0]
  /\ UNCHANGED <<child, pipeVars, exVars, rdVars, cliVars>>

\* One turn of the for loop, the test i < 6 included.
IsDevEnvironmentLoop ==
  /\ devWalk.status = "loop"
  /\ LET here == devWalk.chain[devWalk.dir]
         seen == [devWalk EXCEPT !.visited = @ \cup {devWalk.dir}]
     IN  devWalk' =
           IF devWalk.i >= Levels THEN DevReturn(FALSE)
           ELSE IF AtPackageRoot(here)
           THEN [seen EXCEPT !.status = "returned", !.result = here.git]
           ELSE IF devWalk.dir = Len(devWalk.chain)
           THEN [seen EXCEPT !.status = "returned", !.result = FALSE]
           ELSE [seen EXCEPT !.dir = @ + 1, !.i = @ + 1]
  /\ UNCHANGED <<child, pipeVars, exVars, rdVars, cliVars>>

DevInit ==
  /\ child = NoChild
  /\ PipeIdle
  /\ ExIdle
  /\ RenderIdle
  /\ CliIdle
  /\ \E env \in EnvValues, chain \in Chains(MaxAncestors) :
       devWalk = [status |-> "ready", env |-> env, chain |-> chain, dir |-> 0,
                  i |-> 0, visited |-> {}, result |-> FALSE]

DevNext ==
  \/ IsDevEnvironmentCall
  \/ IsDevEnvironmentLoop

SpecDev == DevInit /\ [][DevNext]_vars

----------------------------------------------------------------------------
(* The mknext command line: the command of mk-next.ts, and the command of *)
(* cli.ts with the script mknext.sh it spawns                             *)

MaxFlags == 3     \* arguments given after <app-name>

\* What may follow <app-name> on the command line: two flags, and a word equal
\* to the app name (as in `--name my-app`).
ExtraWords == {"--ts", "--eslint", "my-app"}

RECURSIVE SeqsUpTo(_, _)
SeqsUpTo(S, n) ==
  IF n = 0 THEN {<<>>}
  ELSE SeqsUpTo(S, n - 1) \cup
       { Append(s, x) : s \in { t \in SeqsUpTo(S, n - 1) : Len(t) = n - 1 }, x \in S }

Entries == {"mk-next.ts", "cli.ts"}

\* commander, with .argument('<app-name>') and .allowUnknownOption(true): the
\* action gets the first word as appName, and cmd.args holds every word.
ParseArgs ==
  /\ cli.status = "argv"
  /\ cli' = [cli EXCEPT !.status = "parsed", !.appName = Head(cli.argv),
                        !.args = cli.argv]
  /\ UNCHANGED <<child, pipeVars, exVars, rdVars, devVars>>

\* The action of mkNextCommand: mkNextApp(appName), whose first spawn after
\* the npm probe is create-next-app.
MkNextCommandAction ==
  /\ cli.status = "parsed"
  /\ cli.entry = "mk-next.ts"
  /\ cli' = [cli EXCEPT !.status = "tool",
                        !.tool = CmdLine("createNextApp", cli.appName, "linux")]
  /\ UNCHANGED <<child, pipeVars, exVars, rdVars, devVars>>

\* cmd.args.filter((a) => a !== appName)
ExtraArgs(args, app) == SelectSeq(args, LAMBDA a : a # app)

\* The action of the mknext command of cli.ts: spawn(scriptPath, [appName, ...extraArgs]).
CliAction ==
  /\ cli.status = "parsed"
  /\ cli.entry = "cli.ts"
  /\ cli' = [cli EXCEPT !.status = "spawned",
                        !.script = <<cli.appName>> \o ExtraArgs(cli.args, cli.appName)]
  /\ UNCHANGED <<child, pipeVars, exVars, rdVars, devVars>>

\* The commands of mknext.sh that run a tool, in the order of the script.
ScriptSteps ==
  <<"createNextApp", "shadcnInit", "shadcnAdd", "npmInstallDev", "npmInstall",
    "prismaInit", "createDb", "dbPush", "betterAuthGenerate", "gitAdd",
    "gitCommit", "editor">>

\* The exit statuses of a command run by the script.
ExitStatuses == {0, 3}

\* What create-db may print when the script runs it.
ScriptDbTexts == {<<"u">>, Prefix \o <<"u">>, <<"x">> \o Prefix \o <<"u">>}

\* mknext.sh: APP_NAME="$1", then npx create-next-app@latest "${APP_NAME}" --yes --use-npm
ScriptCreateNextApp ==
  /\ cli.status = "spawned"
  /\ cli' = [cli EXCEPT !.status = "tool", !.at = 1,
                        !.tool = <<"npx", "create-next-app@latest", Head(cli.script),
                                   "--yes", "--use-npm">>]
  /\ UNCHANGED <<child, pipeVars, exVars, rdVars, devVars>>

\* The script ends with the given exit status.
ScriptExit(c, ran, status) ==
  [c EXCEPT !.status = "closing", !.ran = ran, !.code = status]

\* set -e: the command under way ends, and the script goes on to the next
\* command only when the status is 0; the status of the last command is the
\* status of the script. The create-db pipeline ends in '|| true', and an
\* empty DB_URL ends the script with 'exit 1'.
ScriptCommand ==
  /\ cli.entry = "cli.ts"
  /\ cli.status = "tool"
  /\ \E st \in ExitStatuses :
       LET step == ScriptSteps[cli.at]
           ran == Append(cli.ran, [step |-> step, status |-> st])
           next == [cli EXCEPT !.at = @ + 1, !.ran = ran]
       IN  IF step = "createDb"
           THEN \E text \in ScriptDbTexts :
                  cli' = IF ScriptDbUrl(text) = <<>>
                         THEN ScriptExit(cli, ran, 1)
                         ELSE [next EXCEPT !.dbUrl = ScriptDbUrl(text)]
           ELSE cli' = IF st # 0 THEN ScriptExit(cli, ran, st)
                       ELSE IF cli.at = Len(ScriptSteps) THEN ScriptExit(cli, ran, 0)
                       ELSE next
  /\ UNCHANGED <<child, pipeVars, exVars, rdVars, devVars>>

\* The script is ended by a signal while a command is under way: the child of
\* cli.ts closes with code null.
ScriptKilled ==
  /\ cli.entry = "cli.ts"
  /\ cli.status = "tool"
  /\ cli' = [cli EXCEPT !.status = "closing", !.code = NullCode, !.signal = TRUE]
  /\ UNCHANGED <<child, pipeVars, exVars, rdVars, devVars>>

\* spawn() fails (the script is missing or may not be executed): the child
\* emits 'error', for which cli.ts has no listener, so the event is thrown as an
\* uncaught exception and node ends with status 1.
CliOnError ==
  /\ cli.entry = "cli.ts"
  /\ cli.status = "spawned"
  /\ \E e \in SysErrors :
       cli' = [cli EXCEPT !.status = "exited", !.spawnError = e,
                          !.exit = Append(@, 1)]
  /\ UNCHANGED <<child, pipeVars, exVars, rdVars, devVars>>

\* child.on('close', (code) => process.exit(code ?? 0))
CliOnClose ==
  /\ cli.entry = "cli.ts"
  /\ cli.status = "closing"
  /\ cli' = [cli EXCEPT !.status = "exited",
                        !.exit = Append(@, IF cli.code = NullCode THEN 0 ELSE cli.code)]
  /\ UNCHANGED <<child, pipeVars, exVars, rdVars, devVars>>

CliInit ==
  /\ child = NoChild
  /\ PipeIdle
  /\ ExIdle
  /\ RenderIdle
  /\ DevIdle
  /\ \E entry \in Entries, flags \in SeqsUpTo(ExtraWords, MaxFlags) :
       cli = [status |-> "argv", entry |-> entry, argv |-> <<"my-app">> \o flags,
              appName |-> "", args |-> <<>>, script |-> <<>>, tool |-> <<>>,
              at |-> 0, ran |-> <<>>, dbUrl |-> <<>>, code |-> 0,
              signal |-> FALSE, spawnError |-> "", exit |-> <<>>]

CliNext ==
  \/ ParseArgs
  \/ MkNextCommandAction
  \/ CliAction
  \/ ScriptCreateNextApp
  \/ ScriptCommand
  \/ ScriptKilled
  \/ CliOnError
  \/ CliOnClose

SpecCli == CliInit /\ [][CliNext]_vars

----------------------------------------------------------------------------
(* Properties of run() and runInherit(), checked under SpecRun *)

\* The first 'error' or 'close' event of the child, 0 when there is none yet.
FirstSettling(c) ==
  LET S == {i \in DOMAIN c.hist : c.hist[i].ev \in {"error", "close"}}
  IN  IF S = {} THEN 0 ELSE CHOOSE i \in S : \A j \in S : i <= j

\* The chunks of stream `ev` received before event number i, in arrival order.
RECURSIVE ChunksBefore(_, _, _)
ChunksBefore(h, ev, i) ==
  IF i <= 1 \/ h = <<>> THEN <<>>
  ELSE IF Head(h).ev = ev
       THEN <<Head(h).d>> \o ChunksBefore(Tail(h), ev, i - 1)
       ELSE ChunksBefore(Tail(h), ev, i - 1)

ReceivedBefore(c, ev, i) == Flatten(ChunksBefore(c.hist, ev, i))

\* C4: a call of run() whose child closes with a non-zero code (null included)
\* while allowFail is false or unset never resolves; when that 'close' is the
\* event that settles the call, the call is rejected with an error carrying
\* the command line, that exit code and the stderr text captured until then.
C4_NonZeroExitRejects ==
  \A i \in DOMAIN child.hist :
    (/\ child.kind = "run"
     /\ child.allowFail # "true"
     /\ child.hist[i].ev = "close"
     /\ child.hist[i].code # 0)
    => /\ child.p.state = "rejected"
       /\ FirstSettling(child) = i =>
            /\ child.p.value.type = "CommandFailed"
            /\ child.p.value.code = child.hist[i].code
            /\ child.p.value.stderr = ReceivedBefore(child, "stderr", i)
            /\ child.p.value.cmdline = child.cmdline

C4_Witness ==
  /\ child.kind = "run"
  /\ child.allowFail = "unset"
  /\ child.hist = <<Ev("stderr", <<"e">>, 0), Ev("close", <<>>, 3)>>
  /\ child.p.state = "rejected"
  /\ child.p.value.code = 3

\* C5: a call of run() with allowFail true whose child closes with a non-zero
\* code c, that 'close' being the event that settles the call, resolves with
\* a result whose code is c and whose stdout and stderr are the texts
\* captured until then.
C5_AllowFailResolves ==
  \A i \in DOMAIN child.hist :
    (/\ child.kind = "run"
     /\ child.allowFail = "true"
     /\ child.hist[i].ev = "close"
     /\ child.hist[i].code # 0
     /\ FirstSettling(child) = i)
    => /\ child.p.state = "resolved"
       /\ child.p.value.type = "result"
       /\ child.p.value.code = child.hist[i].code
       /\ child.p.value.stdout = ReceivedBefore(child, "stdout", i)
       /\ child.p.value.stderr = ReceivedBefore(child, "stderr", i)

C5_Witness ==
  /\ child.kind = "run"
  /\ child.allowFail = "true"
  /\ child.hist = <<Ev("stdout", <<"u">>, 0), Ev("close", <<>>, 3)>>
  /\ child.p.state = "resolved"
  /\ child.p.value.code = 3

\* C6: when the child of run() or runInherit() emits 'error' before any
\* 'close', the call is rejected with that system error, whatever allowFail is.
C6_SpawnErrorRejects ==
  \A i \in DOMAIN child.hist :
    (/\ child.kind \in {"run", "inherit"}
     /\ child.hist[i].ev = "error"
     /\ FirstSettling(child) = i)
    => /\ child.p.state = "rejected"
       /\ child.p.value.type = "SpawnError"
       /\ <<child.p.value.err.code>> = child.hist[i].d
       /\ child.p.value.err.path = Head(child.cmdline)

C6_Witness ==
  /\ child.kind = "run"
  /\ child.allowFail = "true"
  /\ child.hist = <<Ev("error", <<"ENOENT">>, 0)>>
  /\ child.p.state = "rejected"

\* C7: whatever events the child emits and in whatever order, the caller gets
\* no outcome before the first 'error' or 'close' and exactly one from then
\* on, and that outcome is the one the first of these two events produces: a
\* later 'close' or 'error' does not replace it.
C7_SettlesExactlyOnce ==
  child.kind \in {"run", "inherit"} =>
    LET i == FirstSettling(child) IN
    /\ child.p.settled <= 1
    /\ i = 0 => child.p.state = "pending" /\ child.p.settled = 0
    /\ i # 0 =>
         /\ child.p.settled = 1
         /\ child.hist[i].ev = "error" =>
              /\ child.p.state = "rejected"
              /\ child.p.value.type = "SpawnError"
              /\ <<child.p.value.err.code>> = child.hist[i].d
         /\ child.hist[i].ev = "close" =>
              /\ child.p.value.type \in {"result", "CommandFailed"}
              /\ child.p.value.code = child.hist[i].code
              /\ child.p.state = "resolved" <=> child.p.value.type = "result"

C7_Witness ==
  /\ child.kind = "run"
  /\ child.allowFail = "true"
  /\ child.hist = <<Ev("error", <<"ENOENT">>, 0), Ev("close", <<>>, 3)>>
  /\ child.p.state = "rejected"
  /\ child.p.settled = 1

\* C8: run() produces a result only at the child's 'close' event, and the
\* result's stdout (stderr) is the concatenation, in arrival order, of the
\* stdout (stderr) chunks received before that event.
C8_ResultHoldsAllChunks ==
  (child.kind = "run" /\ child.p.value.type = "result") =>
    LET i == FirstSettling(child) IN
    /\ i # 0
    /\ child.hist[i].ev = "close"
    /\ child.p.value.stdout = ReceivedBefore(child, "stdout", i)
    /\ child.p.value.stderr = ReceivedBefore(child, "stderr", i)

C8_Witness ==
  /\ child.kind = "run"
  /\ child.hist = <<Ev("stdout", <<" ">>, 0), Ev("stdout", Prefix, 0), Ev("close", <<>>, 0)>>
  /\ child.p.value.type = "result"
  /\ child.p.value.stdout = <<" ">> \o Prefix

\* C9: after every call of run() the child's stdin has been ended, exactly
\* once and as the last operation on it; a non-empty input payload is written
\* once before that, and without a payload, or with an empty one, nothing is
\* written.
C9_StdinAlwaysEnded ==
  child.kind = "run" =>
    LET ops == child.stdin
        writes == {i \in DOMAIN ops : ops[i].op = "write"}
        ends == {i \in DOMAIN ops : ops[i].op = "end"}
    IN  /\ ends = {Len(ops)}
        /\ Len(ops) >= 1
        /\ IF child.input.given /\ child.input.data # <<>>
           THEN writes = {1} /\ ops[1].data = child.input.data /\ Len(ops) = 2
           ELSE writes = {}

C9_Witness ==
  /\ child.kind = "run"
  /\ child.input = [given |-> TRUE, data |-> <<>>]
  /\ child.stdin = <<[op |-> "end", data |-> <<>>]>>
  /\ Seen(child, "close")

----------------------------------------------------------------------------
(* Property of the extraction, checked under SpecExtract *)

\* The maximal whitespace-free stretches <<a, b>> of text t.
TokenSpans(t) ==
  {ab \in (1..Len(t)) \X (1..Len(t)) :
     /\ ab[1] <= ab[2]
     /\ \A k \in ab[1]..ab[2] : t[k] \notin WhiteSpace
     /\ ab[1] = 1 \/ t[ab[1] - 1] \in WhiteSpace
     /\ ab[2] = Len(t) \/ t[ab[2] + 1] \in WhiteSpace}

SpanHasPrefix(t, ab) ==
  /\ ab[2] - ab[1] + 1 >= Len(Prefix)
  /\ \A k \in 1..Len(Prefix) : t[ab[1] + k - 1] = Prefix[k]

\* C10: the value extracted from a stdout text is the leftmost maximal
\* whitespace-free stretch of the text that begins with 'postgresql://',
\* whole and unchanged; it is empty (absent) when no stretch begins so.
C10_FirstPrefixedToken ==
  pc = "extracted" =>
    LET hits == {ab \in TokenSpans(exIn) : SpanHasPrefix(exIn, ab)}
    IN  IF hits = {} THEN exOut = <<>>
        ELSE LET first == CHOOSE ab \in hits : \A o \in hits : ab[1] <= o[1]
             IN  exOut = SubSeq(exIn, first[1], first[2])

C10_Witness ==
  /\ pc = "extracted"
  /\ exIn = <<"u">> \o <<"\n">> \o Prefix \o <<"u">>
  /\ exOut = Prefix \o <<"u">>

----------------------------------------------------------------------------
(* Properties of mkNextApp, checked under Spec *)

BestEffortSteps == {"gitAdd", "gitCommit", "editor"}

PhaseOrder ==
  <<"npmVersion", "createNextApp", "shadcnInit", "shadcnAdd", "npmInstallDev",
    "npmInstall", "prismaInit", "createDb", "renderTemplates", "prismaGenerate",
    "betterAuthGenerate", "dbPush", "gitAdd", "gitCommit", "editor">>

PhaseIdx(s) == CHOOSE i \in DOMAIN PhaseOrder : PhaseOrder[i] = s

IsPhaseStep(e) == e.step \notin FsSteps

\* The steps of the claims (commands and the render), without the two
\* filesystem writes mkNextApp makes itself.
PhaseLog == SelectSeq(log, IsPhaseStep)

Invoked(s) == \E i \in DOMAIN log : log[i].step = s

\* The step an error message of mkNextApp itself belongs to.
MsgStep(msg) ==
  CASE msg = "npm not found on PATH" -> "npmVersion"
    [] msg = "Failed to obtain a database URL from create-db." -> "createDb"
    [] msg = "Failed rendering template" -> "renderTemplates"
    [] OTHER -> "entry"

\* The reported failure r is the failure of `step`.
ReportedFor(step, r) ==
  CASE r.type = "CommandFailed" -> r.cmdline = CmdLine(step, appName, platform)
    [] r.type = "SpawnError" ->
         <<r.err.path>> \o r.err.spawnargs = CmdLine(step, appName, platform)
    [] r.type = "Error" -> MsgStep(r.msg) = step
    [] r.type = "FsError" -> r.step = step
    [] OTHER -> FALSE

\* C1: when the call of a fatal step (any step but git add, git commit and the
\* editor launch) fails, that step is the last one ever invoked in the run:
\* no command, filesystem write or render follows it, the run is Failed,
\* process.exit(1) is called once and the failure printed is that step's.
C1_FatalShortCircuit ==
  \A i \in DOMAIN log :
    (log[i].status = "rejected" /\ log[i].step \notin BestEffortSteps)
    => /\ i = Len(log)
       /\ pc = "Failed"
       /\ child = NoChild
       /\ exitCalls = <<1>>
       /\ ReportedFor(log[i].step, reported)

C1_Witness ==
  /\ pc = "Failed"
  /\ Len(log) = 2
  /\ log[2] = LogEntry("createNextApp", "rejected", 3)
  /\ reported.type = "CommandFailed"
  /\ reported.cmdline = CmdLine("createNextApp", appName, platform)

\* C2: once the git phase or the editor launch has been started the run never
\* fails: process.exit is not called and nothing is printed as a failure,
\* whether these calls are rejected by a spawn failure or by a non-zero exit;
\* after a rejected git add or git commit the editor launch is the next step
\* invoked, and once the editor call has settled the run is Done.
C2_BestEffortIsolation ==
  /\ (\E s \in BestEffortSteps : Invoked(s))
       => pc \in BestEffortSteps \cup {"Done"} /\ exitCalls = <<>> /\ reported = NoValue
  /\ \A i \in DOMAIN log :
       /\ (log[i].step \in {"gitAdd", "gitCommit"} /\ log[i].status = "rejected")
            => /\ log[i].step \in warned
               /\ pc \in {"editor", "Done"}
               /\ i < Len(log) => log[i + 1].step = "editor"
       /\ (log[i].step = "editor" /\ log[i].status # "pending")
            => pc = "Done" /\ i = Len(log)
       /\ (log[i].step = "editor" /\ log[i].status = "rejected") => "editor" \in warned
  /\ pc = "Done" => Invoked("editor")

C2_Witness ==
  /\ pc = "Done"
  /\ exitCalls = <<>>
  /\ \E i \in DOMAIN log : log[i].step = "gitAdd" /\ log[i].status = "rejected"
  /\ \E i \in DOMAIN log : log[i].step = "editor" /\ log[i].status = "rejected"

AfterHarvest ==
  {"renderTemplates", "prismaGenerate", "betterAuthGenerate", "dbPush",
   "gitAdd", "gitCommit", "editor"}

NoPrefixedToken(t) == \A ab \in TokenSpans(t) : ~SpanHasPrefix(t, ab)

\* C11: when the create-db call resolves with a stdout that holds no
\* whitespace-delimited token beginning with 'postgresql://', the run fails at
\* once with the error that names create-db; in a run that failed so,
\* create-db is the last step invoked: renderTemplates, the post-processing
\* commands, git and the editor launch are never invoked.
C11_ExtractionFailureFatal ==
  /\ [](reported = ExtractionFailed =>
          /\ pc = "Failed"
          /\ exitCalls = <<1>>
          /\ log # <<>>
          /\ log[Len(log)].step = "createDb"
          /\ log[Len(log)].status = "resolved"
          /\ renderArgs = <<>>
          /\ \A s \in AfterHarvest : ~Invoked(s))
  /\ [][(/\ pc = "createDb"
         /\ child.kind = "run"
         /\ child.p.state = "resolved"
         /\ NoPrefixedToken(child.p.value.stdout)
         /\ child' = NoChild)
        => (pc' = "Failed" /\ reported' = ExtractionFailed)]_vars

C11_Witness ==
  /\ pc = "Failed"
  /\ reported = ExtractionFailed
  /\ log[Len(log)] = LogEntry("createDb", "resolved", 0)
  /\ renderArgs = <<>>

----------------------------------------------------------------------------
(* Properties of renderTemplates, checked under SpecRender *)

\* A call of renderTemplates has settled.
Returned == rend.pass >= 1 /\ rend.status \in {"resolved", "rejected"}
Succeeded == rend.pass >= 1 /\ rend.status = "resolved"

\* C12: a call of renderTemplates whose templatesDir does not exist raises no
\* error, does not create projectDir, and leaves the filesystem at and under
\* projectDir exactly as it was before the call; no entry is rendered.
C12_MissingTemplatesDirIsNoOp ==
  ~rend.opts.tplExists =>
    /\ rend.status \in {"ready", "resolved"}
    /\ rend.error = NoValue
    /\ rend.trace = <<>>
    /\ dest = rend.before
    /\ \A i \in 1..Len(rend.after) : rend.after[i].dest = rend.before
    /\ ProjectDir \notin rend.before.dirs =>
         ProjectDir \notin dest.dirs /\ ProjectDir \notin DOMAIN dest.files

C12_Witness ==
  /\ ~rend.opts.tplExists
  /\ Succeeded
  /\ rend.warned
  /\ ProjectDir \notin dest.dirs

\* The place under projectDir that belongs to a template entry: its path
\* below templatesDir with the last four characters of its name taken off.
StrippedName(e) ==
  LET n == e.path[Len(e.path)] IN SubSeq(n, 1, Len(n) - 4)

ExpectedOut(e) ==
  ProjectDir \o ParentOf(e.path)
    \o (IF StrippedName(e) = <<>> THEN <<>> ELSE <<StrippedName(e)>>)

ExpectedText(e) ==
  <<ValueOf(MergedData(rend.opts, e), "a"), ValueOf(MergedData(rend.opts, e), "b")>>

\* C13: after a pass of renderTemplates that completes, every file of the
\* template tree whose name ends in '.eta' has its rendered output at projectDir
\* joined with its template-relative path with the trailing '.eta' removed, and
\* every directory above that output exists.
C13_SuffixStripped ==
  Succeeded =>
    \A e \in TemplatesOf(rend.tree) :
      /\ ExpectedOut(e) \in DOMAIN dest.files
      /\ dest.files[ExpectedOut(e)] = ExpectedText(e)
      /\ \A q \in Prefixes(ParentOf(ExpectedOut(e))) : q \in dest.dirs

C13_Witness ==
  /\ Succeeded
  /\ ProjectDir \notin rend.before.dirs
  /\ Entry(<<NameD, NameAEta>>, "file") \in rend.tree
  /\ Entry(<<NameAEtaEta>>, "file") \in rend.tree
  /\ (ProjectDir \o <<NameD, NameA>>) \in DOMAIN dest.files
  /\ (ProjectDir \o <<NameAEta>>) \in DOMAIN dest.files

\* The two keys under which the variables map may hold an override for a
\* template entry: its destination path and its template path, both relative.
DestKey(e) == JoinNames(Tail(ExpectedOut(e)))
TplKey(e) == JoinNames(e.path)

HasOverride(key) == rend.opts.hasVariables /\ key \in DOMAIN rend.opts.variables

\* The global data with the fields of one override laid over it.
Overridden(key, k) ==
  IF k \in DOMAIN rend.opts.variables[key]
  THEN rend.opts.variables[key][k]
  ELSE ValueOf(rend.opts.data, k)

\* C14: the data a template is rendered with is the global data overridden by
\* the destination-path override alone when the variables map holds overrides
\* under both of its keys, by the template-path override when it holds only
\* that one, and the global data unchanged when it holds neither; the file
\* written shows that data.
C14_OverridePrecedence ==
  \A i \in 1..Len(rend.trace) :
    LET t == rend.trace[i]
        e == Entry(t.tpl, "file")
        Used(k) == ValueOf(t.data, k)
    IN  /\ HasOverride(DestKey(e)) =>
             \A k \in DataKeys : Used(k) = Overridden(DestKey(e), k)
        /\ ~HasOverride(DestKey(e)) /\ HasOverride(TplKey(e)) =>
             \A k \in DataKeys : Used(k) = Overridden(TplKey(e), k)
        /\ ~HasOverride(DestKey(e)) /\ ~HasOverride(TplKey(e)) =>
             \A k \in DataKeys : Used(k) = ValueOf(rend.opts.data, k)
        /\ Succeeded => dest.files[t.out] = <<Used("a"), Used("b")>>

C14_Witness ==
  /\ Succeeded
  /\ Entry(<<NameAEta>>, "file") \in rend.tree
  /\ Entry(<<NameD, NameAEta>>, "file") \in rend.tree
  /\ HasOverride(NameA) /\ HasOverride(NameAEta)
  /\ HasOverride(JoinNames(<<NameD, NameAEta>>))
  /\ dest.files[ProjectDir \o <<NameA>>] = <<"for a", "global">>
  /\ dest.files[ProjectDir \o <<NameD, NameA>>] = <<"for d/a.eta", "global">>

\* C15: no entry of the variables map is applied to two templates that have
\* different paths: within one pass, an override registered under one key is
\* merged into the data of at most one template entry.
C15_OverrideIsolation ==
  \A i, j \in 1..Len(rend.trace) :
    rend.trace[i].key \cap rend.trace[j].key # {} =>
      rend.trace[i].tpl = rend.trace[j].tpl

\* C16: a second call of renderTemplates with the same template tree, data and
\* variables map, made after a first call that completed, completes too and
\* leaves exactly the files and directories the first call left, with the same
\* contents: files are written over, nothing is appended or duplicated.
C16_Idempotent ==
  Len(rend.after) = 2 /\ rend.after[1].status = "resolved" =>
    /\ rend.after[2].status = "resolved"
    /\ rend.after[2].dest = rend.after[1].dest

C16_Witness ==
  /\ Len(rend.after) = 2
  /\ rend.after[1].status = "resolved"
  /\ Len(rend.trace) = 2
  /\ rend.before.files # <<>>
  /\ rend.before = dest

\* The paths of the files a pass created or changed.
Touched ==
  { p \in DOMAIN dest.files :
      p \notin DOMAIN rend.before.files \/ dest.files[p] # rend.before.files[p] }

\* C17: a file of the template tree whose name does not end in '.eta' is never
\* read or rendered and gets no destination file: the entries a pass reads are
\* template files only, and after a pass that completes the entries rendered
\* are exactly the '.eta' files of the tree, each written once, and no other
\* file under projectDir was created or changed.
C17_NonTemplatesIgnored ==
  /\ \A i \in 1..Len(rend.trace) :
       \E e \in TemplatesOf(rend.tree) : rend.trace[i].tpl = e.path
  /\ Succeeded =>
       /\ { rend.trace[i].tpl : i \in 1..Len(rend.trace) }
            = { e.path : e \in TemplatesOf(rend.tree) }
       /\ Len(rend.trace) = Cardinality(TemplatesOf(rend.tree))
       /\ Touched \subseteq { ExpectedOut(e) : e \in TemplatesOf(rend.tree) }
       /\ DOMAIN rend.before.files \subseteq DOMAIN dest.files

C17_Witness ==
  /\ Succeeded
  /\ Entry(<<NameNoDot>>, "file") \in rend.tree
  /\ Entry(<<NameLEta>>, "link") \in rend.tree
  /\ Entry(<<NameAEta>>, "file") \in rend.tree
  /\ ProjectDir \in rend.before.dirs
  /\ Touched = {ProjectDir \o <<NameA>>}

\* The directories below projectDir, as paths relative to it.
DirsBelowProjectDir == { Tail(q) : q \in { d \in dest.dirs : Len(d) > 1 } }

\* The directories of the template tree, and those of them with a template
\* file somewhere below.
TreeDirs == { e.path : e \in { x \in rend.tree : x.kind = "dir" } }
IsBelow(path, dir) == Len(path) > Len(dir) /\ SubSeq(path, 1, Len(dir)) = dir
TreeDirsWithTemplates ==
  { dir \in TreeDirs : \E e \in TemplatesOf(rend.tree) : IsBelow(e.path, dir) }

IntoEmptyProjectDir ==
  rend.before.dirs = {Root, ProjectDir} /\ rend.before.files = <<>>

\* C18 (as claimed): after a pass that completes into an empty projectDir, the
\* directories under projectDir are exactly the directories of the template
\* tree, at the same relative paths.
C18_DirectoryMirroring ==
  Succeeded /\ IntoEmptyProjectDir => DirsBelowProjectDir = TreeDirs

\* C18 (amended): after a pass that completes into an empty projectDir, the
\* directories under projectDir are exactly those directories of the template
\* tree that hold a template file somewhere below them; a directory of the
\* template tree with no template file below it is not created.
C18_DirectoriesOnDemand ==
  Succeeded /\ IntoEmptyProjectDir => DirsBelowProjectDir = TreeDirsWithTemplates

C18_Witness ==
  /\ Succeeded
  /\ IntoEmptyProjectDir
  /\ Entry(<<NameD, NameAEta>>, "file") \in rend.tree
  /\ DirsBelowProjectDir = {<<NameD>>}

\* The destination left by writing, in order, the outputs of the first n
\* entries of the trace over what was there before the pass.
RECURSIVE WrittenUpTo(_)
WrittenUpTo(n) ==
  IF n = 0 THEN rend.before
  ELSE LET d == WrittenUpTo(n - 1)
           e == Entry(rend.trace[n].tpl, "file")
       IN  [dirs |-> d.dirs \cup Prefixes(ParentOf(ExpectedOut(e))),
            files |-> (ExpectedOut(e) :> ExpectedText(e)) @@ d.files]

RenderHasFailed == rend.status = "rejected" /\ rend.error.name = "Error"

\* C19: when the rendering of an entry fails, the pass stops at that entry
\* with an error that carries the entry's template-relative path and the
\* engine's message; the entries before it are written and stay, the failing
\* entry's destination is not written, and no later entry is rendered or
\* written.
C19_RenderFailureStops ==
  RenderHasFailed =>
    LET n == Len(rend.trace)
        failing == Entry(rend.trace[n].tpl, "file")
    IN  /\ n >= 1
        /\ rend.stack = <<>>
        /\ rend.opts.broken = failing.path
        /\ rend.trace[n].result = "render failed"
        /\ rend.error.message =
             <<"Failed rendering template", TplKey(failing), "bad template">>
        /\ \A i \in 1..(n - 1) : rend.trace[i].result = "written"
        /\ dest = WrittenUpTo(n - 1)
        /\ rend.after[Len(rend.after)].dest = dest

C19_Witness ==
  /\ RenderHasFailed
  /\ Cardinality(TemplatesOf(rend.tree)) = 3
  /\ Len(rend.trace) = 2
  /\ ProjectDir \o <<NameA>> \in DOMAIN dest.files
  /\ ProjectDir \o <<NameAEta>> \notin DOMAIN dest.files

----------------------------------------------------------------------------
(* Properties of isDevEnvironment, checked under SpecDev *)

\* The directories within the first six levels, __dirname being the first.
Within == 1..(IF Len(devWalk.chain) < 6 THEN Len(devWalk.chain) ELSE 6)

HasBoth(k) == devWalk.chain[k].pkg /\ devWalk.chain[k].git
DevReturned == devWalk.status = "returned" /\ devWalk.env = "unset"

\* C20 (as claimed): with the override variable unset, isDevEnvironment returns
\* true exactly when some directory within six levels upward of the program's
\* own directory holds both a package.json and a .git entry.
C20_SomeDirectoryHasBoth ==
  DevReturned => (devWalk.result <=> \E k \in Within : HasBoth(k))

\* C20 (amended): with the override variable unset, isDevEnvironment returns
\* true exactly when the nearest directory with a package.json, within six
\* levels upward of the program's own directory, also holds a .git entry: the
\* walk ends at the first package.json it finds.
C20_NearestPackageHasGit ==
  DevReturned =>
    (devWalk.result <=>
       \E k \in Within :
         /\ HasBoth(k)
         /\ \A j \in 1..(k - 1) : ~devWalk.chain[j].pkg)

C20_Witness ==
  /\ DevReturned
  /\ devWalk.result
  /\ devWalk.visited = {1, 2, 3}
  /\ devWalk.chain[1] = [pkg |-> FALSE, git |-> TRUE]
  /\ Len(devWalk.chain) = 7
  /\ HasBoth(7)

\* What the walk alone yields: the nearest directory with a package.json,
\* within six levels, also holds a .git entry.
FilesystemRule ==
  \E k \in Within :
    /\ HasBoth(k)
    /\ \A j \in 1..(k - 1) : ~devWalk.chain[j].pkg

\* C21 (as claimed): whenever JR_SCRIPTS_FORCE_DEV is set in the environment,
\* isDevEnvironment returns true whatever the directories around the program
\* hold.
C21_SetOverrideForces ==
  devWalk.status = "returned" /\ devWalk.env # "unset" => devWalk.result

\* C21 (amended): when JR_SCRIPTS_FORCE_DEV has the value '1', isDevEnvironment
\* returns true without looking at any directory; when it is set to another
\* value the result is the one of the walk, as if the variable were unset.
C21_OverrideIsOne ==
  devWalk.status = "returned" =>
    /\ devWalk.env = "1" => devWalk.result /\ devWalk.visited = {}
    /\ devWalk.env = "0" => (devWalk.result <=> FilesystemRule)

C21_Witness ==
  /\ devWalk.status = "returned"
  /\ devWalk.env = "1"
  /\ devWalk.result
  /\ devWalk.chain[1] = [pkg |-> TRUE, git |-> FALSE]

----------------------------------------------------------------------------
(* Further properties of mkNextApp, checked under Spec *)

\* The step invoked right after the step s in this run, if any.
NextAfter(s) ==
  { PhaseLog[i + 1].step : i \in { j \in DOMAIN PhaseLog :
                                     j < Len(PhaseLog) /\ PhaseLog[j].step = s } }

\* C22: in a run in which isDevEnvironment() returned true neither git add nor
\* git commit is ever spawned and the step invoked after the schema push is the
\* editor launch; in a run in which it returned false git add is the step that
\* follows the schema push, and the editor is not launched before git add was
\* spawned. isDevEnvironment() is called only once the schema push succeeded.
C22_DevModeSkipsGit ==
  /\ devEnv # "unread" =>
       \E i \in DOMAIN log : log[i] = LogEntry("dbPush", "resolved", 0)
  /\ devEnv = "true" =>
       /\ ~Invoked("gitAdd") /\ ~Invoked("gitCommit")
       /\ pc \in {"editor", "Done"}
       /\ NextAfter("dbPush") \subseteq {"editor"}
  /\ devEnv = "false" =>
       /\ pc = "gitAdd" \/ Invoked("gitAdd")
       /\ NextAfter("dbPush") \subseteq {"gitAdd"}
       /\ Invoked("editor") => Invoked("gitAdd")

C22_Witness ==
  /\ devEnv = "true"
  /\ pc = "Done"
  /\ NextAfter("dbPush") = {"editor"}

\* C23: the action of the mknext command ends in one of two ways. When
\* mkNextApp completes, process.exit is not called and nothing is printed as a
\* failure; when mkNextApp throws, the failure is printed with console.error
\* and process.exit(1) is called, once. process.exit is called with no other
\* code and in no other state, and a failed run stays failed.
C23_ExitStatus ==
  /\ [](/\ pc = "Done" => exitCalls = <<>> /\ reported = NoValue
        /\ pc = "Failed" => exitCalls = <<1>> /\ reported # NoValue /\ child = NoChild
        /\ exitCalls # <<>> => pc = "Failed"
        /\ reported # NoValue => pc = "Failed"
        /\ pc = "Failed" =>
             \/ log = <<>> /\ reported = UsageError
             \/ /\ log # <<>>
                /\ log[Len(log)].status = "rejected" \/ reported = ExtractionFailed
                /\ ReportedFor(log[Len(log)].step, reported))
  /\ [][(pc \in {"Done", "Failed"})
          => (pc' = pc /\ exitCalls' = exitCalls /\ reported' = reported)]_vars

C23_Witness ==
  /\ pc = "Failed"
  /\ exitCalls = <<1>>
  /\ reported.type = "SpawnError"
  /\ log[Len(log)].step = "prismaGenerate"

----------------------------------------------------------------------------
(* Properties of the command line, checked under SpecCli *)

\* The words given after <app-name> on the command line.
GivenFlags == Tail(cli.argv)

\* The sequence part occurs in the sequence whole, in one piece.
OccursIn(part, whole) ==
  \E i \in 1..(Len(whole) + 1) :
    /\ i + Len(part) - 1 <= Len(whole)
    /\ SubSeq(whole, i, i + Len(part) - 1) = part

\* C24: for every command line `mknext <app-name> <extra flags...>` the extra
\* flags are part of the command line of the tool that is run (create-next-app):
\* the same flags in the same order, none dropped and none added.
C24_FlagsPassThrough ==
  cli.status \in {"tool", "exited"} =>
    /\ OccursIn(GivenFlags, cli.tool)
    /\ Len(cli.tool) = Len(CmdLine("createNextApp", "my-app", "linux")) + Len(GivenFlags)

PostProcessSteps == {"prismaGenerate", "betterAuthGenerate", "dbPush"}

\* The call logged as e ended badly: it was rejected (spawn failure, or a
\* non-zero exit that the runner rejects) or it closed with a non-zero code.
EndedBadly(e) == e.status = "rejected" \/ (e.status = "resolved" /\ e.code # 0)

\* C25 (as claimed): when one of the three commands run after the render
\* (prisma generate, better-auth generate, prisma db push) fails by a non-zero
\* exit or a spawn failure, the run is aborted and no later step runs.
C25_PostProcessFatal ==
  \A i \in DOMAIN log :
    log[i].step \in PostProcessSteps /\ EndedBadly(log[i])
      => i = Len(log) /\ pc = "Failed"

\* C25 (amended): a non-zero exit or a spawn failure of prisma generate or of
\* prisma db push aborts the run, and so does a spawn failure of better-auth
\* generate: the step is the last one invoked, exit status 1, the failure
\* printed. A non-zero exit of better-auth generate is tolerated: the call
\* resolves and the schema push is the next step.
C25_PostProcessFatalButGenerate ==
  \A i \in DOMAIN log :
    log[i].step \in PostProcessSteps =>
      /\ log[i].status = "rejected" =>
           /\ i = Len(log)
           /\ pc = "Failed"
           /\ exitCalls = <<1>>
           /\ ReportedFor(log[i].step, reported)
           /\ log[i].step = "betterAuthGenerate" => reported.type = "SpawnError"
      /\ log[i].status = "resolved" /\ log[i].code # 0 =>
           /\ log[i].step = "betterAuthGenerate"
           /\ IF i = Len(log) THEN pc = "dbPush" ELSE log[i + 1].step = "dbPush"

C25_Witness ==
  /\ \E i \in DOMAIN log : log[i] = LogEntry("betterAuthGenerate", "resolved", 3)
  /\ \E i \in DOMAIN log : log[i] = LogEntry("dbPush", "rejected", 3)
  /\ pc = "Failed"

\* The external commands of mkNextApp, and how often one was spawned.
Commands == RunSteps \cup InheritSteps
Spawns(s) == Cardinality({ i \in DOMAIN log : log[i].step = s })

\* C26 (as claimed): each external command is spawned at most once in a run,
\* whatever the outcomes; in a run that reaches Done outside dev mode every
\* command is spawned exactly once, the editor command being the one of the
\* host platform.
C26_NoRetry ==
  /\ \A s \in Commands : Spawns(s) <= 1
  /\ pc = "Done" /\ devEnv = "false" => \A s \in Commands : Spawns(s) = 1

\* C26 (amended): each external command is spawned at most once in a run; the
\* child being awaited runs the command line of the current step, for the
\* editor the one of the host platform. In a run that reaches Done outside dev
\* mode every command but git commit was spawned exactly once, and git commit
\* was spawned exactly when the call of git add succeeded.
C26_NoRetryCommitAfterAdd ==
  /\ \A s \in Commands : Spawns(s) <= 1
  /\ child # NoChild => child.cmdline = CmdLine(pc, appName, platform)
  /\ pc = "Done" /\ devEnv = "false" =>
       /\ \A s \in Commands \ {"gitCommit"} : Spawns(s) = 1
       /\ Spawns("gitCommit") = 1 <=>
            \E i \in DOMAIN log : log[i].step = "gitAdd" /\ log[i].status = "resolved"

C26_Witness ==
  /\ pc = "Done"
  /\ devEnv = "false"
  /\ Spawns("gitCommit") = 0
  /\ Spawns("gitAdd") = 1
  /\ platform = "win32"

\* C27: the npm probe is the first thing a run does; when it fails, by a spawn
\* failure or by a non-zero exit, the run fails with 'npm not found on PATH'
\* and the probe stays the only command spawned: no filesystem write, no
\* render. Whatever mkNextApp writes or spawns later comes after a probe that
\* exited with code 0.
C27_PreflightBeforeMutation ==
  /\ log # <<>> => log[1].step = "npmVersion"
  /\ (log # <<>> /\ log[1].status = "rejected") =>
       /\ Len(log) = 1
       /\ fsLog = <<>>
       /\ renderArgs = <<>>
       /\ child = NoChild
       /\ pc = "Failed"
       /\ reported = NpmNotFound
  /\ (Len(log) > 1 \/ fsLog # <<>> \/ renderArgs # <<>>) =>
       log[1] = LogEntry("npmVersion", "resolved", 0)

C27_Witness ==
  /\ log = <<LogEntry("npmVersion", "rejected", NullCode)>>
  /\ reported = NpmNotFound
  /\ fsLog = <<>>

\* A child that was spawned and has neither closed nor failed to start.
Outstanding(c) == c # NoChild /\ ~Seen(c, "close") /\ ~Seen(c, "error")

\* The calls of the run whose promise mkNextApp has not seen settled.
PendingCalls == { i \in DOMAIN log : log[i].status = "pending" }

\* C28: at every moment of a run at most one call of run / runInherit is
\* under way, the one of the current step, and its child is the only child
\* that can be outstanding; a new child is spawned only when no call is under
\* way, and mkNextApp writes to the filesystem and renders the templates only
\* when no call is under way.
C28_NoConcurrentPhases ==
  /\ [](/\ Cardinality(PendingCalls) <= 1
        /\ PendingCalls \subseteq {Len(log)}
        /\ PendingCalls # {} <=> child # NoChild
        /\ Outstanding(child) =>
             /\ PendingCalls = {Len(log)}
             /\ log[Len(log)].step = pc
             /\ child.p.state = "pending")
  /\ [][(Len(log') > Len(log)) => (child = NoChild /\ PendingCalls = {})]_vars
  /\ [][(fsLog' # fsLog \/ renderArgs' # renderArgs)
          => (child = NoChild /\ child' = NoChild
              /\ PendingCalls = {} /\ log'[Len(log')].status # "pending")]_vars

C28_Witness ==
  /\ Outstanding(child)
  /\ pc = "shadcnInit"
  /\ fsLog # <<>>
  /\ Len(log) = 4

----------------------------------------------------------------------------
(* Further properties of renderTemplates, checked under SpecRender *)

\* C29: within one pass two distinct template entries never have the same
\* destination path: the paths computed for the templates of the tree are
\* pairwise different, every template is handled at most once, and no
\* destination path is written twice.
C29_DestinationsOneToOne ==
  /\ \A e1, e2 \in TemplatesOf(rend.tree) :
       e1.path # e2.path => OutPath(e1) # OutPath(e2)
  /\ \A i, j \in 1..Len(rend.trace) :
       i # j => /\ rend.trace[i].tpl # rend.trace[j].tpl
                /\ rend.trace[i].out # rend.trace[j].out

C29_Witness ==
  /\ Succeeded
  /\ Len(rend.trace) = 2
  /\ { rend.trace[i].out : i \in 1..2 }
       = { ProjectDir \o <<NameA>>, ProjectDir \o <<NameAEta>> }
  /\ { rend.trace[i].tpl : i \in 1..2 } = { <<NameAEta>>, <<NameAEtaEta>> }

\* The call of the child failed to start: the event that settled it is 'error'.
SpawnFailed(c) ==
  /\ c # NoChild
  /\ FirstSettling(c) > 0
  /\ c.hist[FirstSettling(c)].ev = "error"

\* mkNextApp goes on after the call of a step that is not best-effort.
FatalStepSettles ==
  /\ pc \in Commands \ BestEffortSteps
  /\ child # NoChild
  /\ child' = NoChild

\* C30 (as claimed): whenever a fatal step fails because its executable cannot
\* be spawned, the npm probe included, the failure reason printed holds the
\* command line that was attempted: the executable followed by its arguments.
C30_SpawnFailureNamesCommandLine ==
  [][(FatalStepSettles /\ SpawnFailed(child))
       => OccursIn(child.cmdline, Printed(reported'))]_vars

\* C30 (amended): whenever a fatal step fails because its executable cannot be
\* spawned, the run fails and the reason printed is the message of the
\* runtime's spawn error, 'spawn <executable> <error code>', which names the
\* executable without its arguments; for the npm probe the reason printed is
\* the fixed text 'npm not found on PATH'.
C30_SpawnFailureNamesExecutable ==
  [][(FatalStepSettles /\ SpawnFailed(child))
       => /\ pc' = "Failed"
          /\ Printed(reported') =
               IF pc = "npmVersion" THEN <<"npm not found on PATH">>
               ELSE <<"spawn", Head(child.cmdline)>> \o child.hist[FirstSettling(child)].d
          /\ Len(child.cmdline) > 1 /\ pc # "npmVersion"
               => ~OccursIn(child.cmdline, Printed(reported'))]_vars

C30_Witness ==
  /\ pc = "Failed"
  /\ log # <<>>
  /\ log[Len(log)].step = "dbPush"
  /\ Printed(reported) = <<"spawn", "npx", "EACCES">>


----------------------------------------------------------------------------
(* Independence of the entries of a pass, checked under SpecRender *)

\* What a pass that completes must leave, told from the destination before the
\* pass, the template tree and the options alone; no listing order enters it.
ExpectedDest ==
  LET T == TemplatesOf(rend.tree)
      outs == { ExpectedOut(e) : e \in T }
  IN  [dirs |-> rend.before.dirs
                  \cup UNION { Prefixes(ParentOf(ExpectedOut(e))) : e \in T },
       files |-> [p \in DOMAIN rend.before.files \cup outs |->
                    IF p \in outs
                    THEN ExpectedText(CHOOSE e \in T : ExpectedOut(e) = p)
                    ELSE rend.before.files[p]]]

\* C31: for a fixed template tree, data and variables map, the destination
\* left by a pass that completes is the same whatever the order in which
\* readdir lists the entries of each directory: it is the destination from
\* before the pass with every template's output laid over it.
C31_EntryIndependence ==
  Succeeded =>
    /\ dest.dirs = ExpectedDest.dirs
    /\ DOMAIN dest.files = DOMAIN ExpectedDest.files
    /\ \A p \in DOMAIN dest.files : dest.files[p] = ExpectedDest.files[p]

\* The directory d is listed before the file a.eta, so that d/a.eta is
\* rendered first.
C31_Witness ==
  /\ Succeeded
  /\ rend.opts.hasVariables
  /\ Len(rend.trace) = 2
  /\ rend.trace[1].tpl = <<NameD, NameAEta>>
  /\ rend.trace[2].tpl = <<NameAEta>>
  /\ dest.files[ProjectDir \o <<NameA>>] # dest.files[ProjectDir \o <<NameD, NameA>>]


----------------------------------------------------------------------------
(* Properties of cli.ts and of mknext.sh, checked under SpecCli *)

\* The run of cli.ts is over, or its script is.
ScriptOver == cli.entry = "cli.ts" /\ cli.status \in {"closing", "exited"}

\* The script was started, was not ended by a signal and ended with status 0.
ScriptSucceeded == cli.spawnError = "" /\ ~cli.signal /\ cli.code = 0

\* C32: the mknext action of cli.ts exits with status 0 only when the run of
\* mknext.sh succeeded: after a non-zero exit status of the script, after its
\* end by a signal (close code null) and after a failure to spawn it, the
\* status of the CLI process is not 0.
C32_WrapperExitStatus ==
  cli.entry = "cli.ts" /\ cli.status = "exited" =>
    (cli.exit[1] = 0 => ScriptSucceeded)

\* The commands of the script that ran, in order.
ScriptRan == { cli.ran[i].step : i \in DOMAIN cli.ran }

\* C33: in mknext.sh a failing 'git add' or 'git commit' does not stop the
\* script before the editor launch, and the editor launch, failing or not,
\* leaves the exit status of the script at 0: a script that ended by itself
\* after reaching 'git add' has launched the editor and has ended with
\* status 0.
C33_ScriptBestEffort ==
  ScriptOver /\ ~cli.signal /\ "gitAdd" \in ScriptRan =>
    /\ "editor" \in ScriptRan
    /\ cli.code = 0


----------------------------------------------------------------------------
(* The two extractions compared, checked under SpecExtract *)

\* C34: for every stdout text of create-db, the DB_URL that mknext.sh obtains
\* (first match of 'postgresql://' followed by non-space characters) equals
\* the dbUrlMatch of mkNextApp (first whitespace-delimited token that starts
\* with 'postgresql://'), the empty string, on which both report the failure
\* of the extraction, included.
C34_ExtractorsAgree ==
  pc = "extracted" /\ shOut.done => shOut.url = exOut


----------------------------------------------------------------------------
(* The harvested value at the call of renderTemplates, checked under Spec *)

WhiteSpaceFree(t) == \A i \in DOMAIN t : t[i] \notin WhiteSpace

\* The first whitespace-delimited token of t that starts with the prefix.
FirstPrefixedToken(t) ==
  LET hits == {ab \in TokenSpans(t) : SpanHasPrefix(t, ab)}
      first == CHOOSE ab \in hits : \A cd \in hits : ab[1] <= cd[1]
  IN  SubSeq(t, first[1], first[2])

\* C35: in every run of mkNextApp, renderTemplates is invoked with one
\* override, registered under '.env.local', whose DATABASE_URL is not empty,
\* holds no white space, starts with 'postgresql://' and is the first such
\* token of the stdout of this run's create-db call: the value harvested when
\* create-db resolves is the one handed over, unchanged in between.
C35_HarvestFeedsRender ==
  /\ [](renderArgs # <<>> =>
          /\ Len(renderArgs) = 1
          /\ renderArgs[1].key = ".env.local"
          /\ renderArgs[1].DATABASE_URL # <<>>
          /\ WhiteSpaceFree(renderArgs[1].DATABASE_URL)
          /\ StartsWith(renderArgs[1].DATABASE_URL, Prefix)
          /\ renderArgs[1].DATABASE_URL = dbUrlMatch)
  /\ [][(pc = "createDb" /\ pc' = "renderTemplates") =>
          /\ child.p.state = "resolved"
          /\ ~NoPrefixedToken(child.p.value.stdout)
          /\ dbUrlMatch' = FirstPrefixedToken(child.p.value.stdout)]_vars
  /\ [][(pc = "renderTemplates" /\ pc' # pc) =>
          /\ dbUrlMatch' = dbUrlMatch
          /\ renderArgs' # <<>>]_vars
  /\ [][pc' = "renderTemplates" => pc \in {"createDb", "renderTemplates"}]_vars

\* create-db ended with a non-zero status after printing a URL, and the render
\* was handed that URL.
C35_Witness ==
  /\ pc = "prismaGenerate"
  /\ renderArgs # <<>>
  /\ renderArgs[1].DATABASE_URL = Prefix
  /\ \E i \in DOMAIN log : log[i] = LogEntry("createDb", "resolved", 3)


----------------------------------------------------------------------------
(* Termination of mkNextApp, checked under SpecLive *)

Terminal == {"Done", "Failed"}

\* Every child that was spawned emits 'close' or 'error' at some time.
EveryChildEnds == [](Outstanding(child) => <>(~Outstanding(child)))

\* C36: if every spawned child eventually emits 'close' or 'error', a run of
\* mkNextApp eventually reaches a terminal state, Done or Failed, and once
\* there stays in that one; and there is no timeout or cancellation: as long as
\* the promise of the call under way is pending, the run stays in its phase.
C36_Termination ==
  /\ EveryChildEnds => <>(pc \in Terminal)
  /\ [][(pc \in Terminal) => (pc' = pc)]_vars
  /\ [][(child # NoChild /\ child.p.state = "pending") => (pc' = pc)]_vars

\* The run has ended in Done after a child that emitted 'error' and then
\* 'close', every command having been spawned.
C36_Witness ==
  /\ pc = "Done"
  /\ child = NoChild
  /\ Len(log) >= 12
  /\ warned = {"gitCommit"}
====
